---- MODULE Spec2Model ----
(***************************************************************************)
(* BCD backend: the analysis and comparison engine.                        *)
(*                                                                         *)
(* State: the five tables the engine reads and writes (session_embeddings, *)
(* angle_embeddings, angle_analysis, session_analysis, images), the        *)
(* deployment's table schema, the clock, and the last response of the      *)
(* analyze-session and compare-sessions services.                          *)
(*                                                                         *)
(* Numbers.  An embedding is a vector of rationals, held as an integer     *)
(* numerator vector over a positive denominator in lowest terms, so that   *)
(* np.mean and the subtraction of the user mean are exact.  A distance is  *)
(* held in units of 1/Grid, rounded down from its real value.  Quality and *)
(* confidence scores are held in units of 1/10000, the precision of the    *)
(* source's round(x, 4).  Floating-point rounding error is not modelled.   *)
(***************************************************************************)
EXTENDS Integers, Sequences, FiniteSets, TLC

\* ------------------------------------------------------------------ bounds
\* Analysis requests (synchronous runs) in one behaviour.
MaxRuns == 3
\* Times a month may pass in one behaviour.
MaxMonths == 1
\* Requests hit by a storage fault in one behaviour.
MaxFaults == 1
MaxReruns == 1
\* A distance d is held as the integer floor(Grid * d).
Grid == 20

\* --------------------------------------------------------------- constants
\* quality.py variation_level breakpoints, in hundredths.
VL_STABLE == 10
VL_MILD == 25
VL_MODERATE == 45
VL_HIGHER == 70
\* comparison_service.py STABLE_THRESHOLD and MILD_THRESHOLD, in hundredths.
STABLE_THRESHOLD == 10
MILD_THRESHOLD == 25
\* _load_trend_score(n=5), _load_rolling_baseline(n=5).
TREND_N == 5
ROLLING_N == 5
\* timedelta(days=30) of _load_monthly_baseline.
MONTH_DAYS == 30
\* The expected number of angles (quality.py: len(scores) / 6.0).
EXPECTED_ANGLES == 6
\* The endpoint's floor on the angles present (len(present_types) < 3).
MIN_ANGLES == 3
\* round(x, 4): quality and confidence scores in units of 1/10000.
Q4 == 10000

\* ------------------------------------------------------------- the universe
Users == {"u1", "u2"}
Sessions == {"s1", "s2", "s3", "t1", "t2"}
\* sessions.user_id: the owner of each session.
Owner(s) == IF s \in {"t1", "t2"} THEN "u2" ELSE "u1"

None == <<>>
Some(x) == <<x>>
IsNone(o) == o = <<>>
Val(o) == o[1]

\* ---------------------------------------------------------------- integers
Abs(x) == IF x < 0 THEN -x ELSE x
Min(a, b) == IF a < b THEN a ELSE b
Max(a, b) == IF a > b THEN a ELSE b

RECURSIVE GCD(_, _)
GCD(a, b) == IF b = 0 THEN a ELSE GCD(b, a % b)

\* A list with every element evaluated.
List(s) == s \o <<>>

RECURSIVE SumList(_)
SumList(s) == IF s = <<>> THEN 0 ELSE Head(s) + SumList(Tail(s))
SumSeq(s) == SumList(List(s))

\* floor(n / d) and the nearest integer to n / d (ties to even), d > 0.
FloorDiv(n, d) == IF n >= 0 THEN n \div d ELSE -((-n + d - 1) \div d)
RoundDiv(n, d) ==
  LET f == FloorDiv(n, d)
      r == n - f * d
  IN  IF 2 * r < d THEN f
      ELSE IF 2 * r > d THEN f + 1
      ELSE IF f % 2 = 0 THEN f ELSE f + 1

\* The largest r >= 0 with r * r <= n, by bisection over lo..hi.
RECURSIVE ISqrtIn(_, _, _)
ISqrtIn(n, lo, hi) ==
  IF lo >= hi THEN lo
  ELSE LET mid == (lo + hi + 1) \div 2
       IN  IF mid * mid <= n THEN ISqrtIn(n, mid, hi) ELSE ISqrtIn(n, lo, mid - 1)
ISqrt(n) == ISqrtIn(n, 0, Min(n, 40000))

\* ---------------------------------------------------------------- vectors
\* A rational vector n / d in lowest terms.
VReduce(n, d) ==
  LET g == GCD(GCD(Abs(n[1]), Abs(n[2])), d)
  IN  [n |-> <<n[1] \div g, n[2] \div g>>, d |-> d \div g]
VInt(x, y) == [n |-> <<x, y>>, d |-> 1]
VZero == VInt(0, 0)
VAdd(u, v) == VReduce(<<u.n[1] * v.d + v.n[1] * u.d, u.n[2] * v.d + v.n[2] * u.d>>, u.d * v.d)
VSub(u, v) == VReduce(<<u.n[1] * v.d - v.n[1] * u.d, u.n[2] * v.d - v.n[2] * u.d>>, u.d * v.d)
VDiv(u, k) == VReduce(u.n, u.d * k)
RECURSIVE VSum(_)
VSum(vs) == IF vs = <<>> THEN VZero ELSE VAdd(Head(vs), VSum(Tail(vs)))
\* np.mean(vectors, axis=0) of a non-empty list.
VMean(vs) == LET l == List(vs) IN VDiv(VSum(l), Len(l))
\* The direction of a vector: its numerator with the common factor removed.
VDir(u) ==
  LET g == GCD(Abs(u.n[1]), Abs(u.n[2]))
  IN  IF g = 0 THEN u.n ELSE <<u.n[1] \div g, u.n[2] \div g>>
Dot(a, b) == a[1] * b[1] + a[2] * b[2]
IsZeroNorm(u) == u.n[1] = 0 /\ u.n[2] = 0

\* --------------------------------------------------------------- distances
\* The value a distance takes when the division is 0/0 (NaN): no number.
NotANumber == 2 * Grid + 1

\* floor(Grid * (1 - a.b / (|a| |b|))) for vectors of non-zero norm, computed
\* exactly: the cosine depends on the two directions only, and
\* f <= Grid * |dot| / sqrt(p)  iff  f * f * p <= Grid * Grid * dot * dot;
\* down is the largest such f, up the smallest c with c * c * p >= the same.
CosineTerm(a, b) ==
  LET x == VDir(a)
      y == VDir(b)
      dot == Dot(x, y)
      p == Dot(x, x) * Dot(y, y)
      q == Grid * Grid * dot * dot
      down == ISqrtIn(q \div p, 0, Grid)
      up == IF down * down * p = q THEN down ELSE down + 1
  IN  IF dot >= 0 THEN Grid - up ELSE Grid + down

\* analysis_service._cosine_distance without the guard on norm_b.
_cosine_distance_unguarded(a, b) ==
  IF IsZeroNorm(a) THEN Grid
  ELSE IF IsZeroNorm(b) THEN NotANumber
  ELSE CosineTerm(a, b)

\* analysis_service._cosine_distance: 1.0 if either vector is zero.
_cosine_distance(a, b) ==
  IF IsZeroNorm(a) \/ IsZeroNorm(b) THEN Grid ELSE CosineTerm(a, b)

\* comparison_service._cosine_distance, the second copy.
cmp_cosine_distance(a, b) ==
  IF IsZeroNorm(a) \/ IsZeroNorm(b) THEN Grid ELSE CosineTerm(a, b)

\* variation_level with the breakpoints taken into the lower interval.
variation_level_inclusive(score) ==
  IF score * 100 <= VL_STABLE * Grid THEN "Stable"
  ELSE IF score * 100 <= VL_MILD * Grid THEN "Mild Variation"
  ELSE IF score * 100 <= VL_MODERATE * Grid THEN "Moderate Variation"
  ELSE IF score * 100 <= VL_HIGHER * Grid THEN "Higher Variation"
  ELSE "Strong Variation"

\* quality.variation_level of a score held in units of 1/Grid.
variation_level(score) ==
  IF score * 100 < VL_STABLE * Grid THEN "Stable"
  ELSE IF score * 100 < VL_MILD * Grid THEN "Mild Variation"
  ELSE IF score * 100 < VL_MODERATE * Grid THEN "Moderate Variation"
  ELSE IF score * 100 < VL_HIGHER * Grid THEN "Higher Variation"
  ELSE "Strong Variation"

VariationLevels == {"Stable", "Mild Variation", "Moderate Variation", "Higher Variation", "Strong Variation"}

\* ------------------------------------------------------------------ quality
\* quality.compute_session_quality over the list of per-angle scores (1/Q4).
compute_session_quality(scores) ==
  IF scores = <<>> THEN 0
  ELSE RoundDiv(SumSeq(scores) * Min(EXPECTED_ANGLES, Len(scores)), Len(scores) * EXPECTED_ANGLES)

\* quality.compute_consistency_score over change scores held in 1/Grid:
\* round(max(0, 1 - std / 0.5), 4), the standard deviation taken to 1/100 of
\* a grid unit.
compute_consistency_score(scores) ==
  IF Len(scores) < 2 THEN Q4
  ELSE LET n == Len(scores)
           sq == List([i \in 1 .. n |-> scores[i] * scores[i]])
           var_n2 == n * SumSeq(sq) - SumSeq(scores) * SumSeq(scores)
           std100 == ISqrt(var_n2 * 10000)
       IN  Max(0, Q4 - RoundDiv(2 * Q4 * std100, 100 * n * Grid))

\* compute_analysis_confidence with the history factor 1.0 for every user.
ConfidenceNoHistory(session_quality_score, consistency_score, n_angles, is_first_session) ==
  LET coverage6 == Min(EXPECTED_ANGLES, n_angles)
      num == 6 * (40 * session_quality_score + 30 * consistency_score)
             + 20 * Q4 * coverage6 + 6 * Q4 * 10
  IN  Max(0, Min(Q4, RoundDiv(num, 600)))

\* quality.compute_analysis_confidence (1/Q4): 40 % quality, 30 % consistency,
\* 20 % coverage, 10 % history (0.7 for a first session).
compute_analysis_confidence(session_quality_score, consistency_score, n_angles, is_first_session) ==
  LET coverage6 == Min(EXPECTED_ANGLES, n_angles)
      history10 == IF is_first_session THEN 7 ELSE 10
      num == 6 * (40 * session_quality_score + 30 * consistency_score)
             + 20 * Q4 * coverage6 + 6 * Q4 * history10
  IN  Max(0, Min(Q4, RoundDiv(num, 600)))

\* ------------------------------------------------------------------- images
Img(angle, content) == [image_type |-> angle, content |-> content]

\* ImageEncoder.extract: the feature extractor, an opaque deterministic
\* capability; "z" is a degenerate image whose embedding has zero norm.
Extract(content) ==
  CASE content = "a" -> VInt(1, 0)
    [] content = "a2" -> VInt(2, 0)
    [] content = "b" -> VInt(0, 1)
    [] content = "c" -> VInt(3, 1)
    [] OTHER -> VZero

\* compute_image_quality(...).quality_score of the preprocessed image (1/Q4).
QualityScore(content) ==
  CASE content = "a" -> 8000
    [] content = "a2" -> 7801
    [] content = "b" -> 9000
    [] content = "c" -> 3000
    [] OTHER -> 1000

\* The image lists a completed session may hold (rows of the images table).
SetA == <<Img("front", "a"), Img("left", "a"), Img("right", "a")>>
SetB == <<Img("front", "c"), Img("left", "b"), Img("right", "a2")>>
SetC == <<Img("front", "a"), Img("left", "c"), Img("front", "b"), Img("right", "z"), Img("up", "a")>>
SetD == <<Img("front", "a"), Img("left", "b")>>

\* embedding.extract_embedding: the image's embedding, centred by the user
\* mean when one is given.
extract_embedding(content, user_mean) ==
  IF IsNone(user_mean) THEN Extract(content) ELSE VSub(Extract(content), Val(user_mean))

\* The keys of angle_groups in insertion order: each image_type at its first
\* appearance in the image list.
RECURSIVE AngleOrder(_, _)
AngleOrder(imgs, seen) ==
  IF imgs = <<>> THEN <<>>
  ELSE IF Head(imgs).image_type \in seen THEN AngleOrder(Tail(imgs), seen)
  ELSE <<Head(imgs).image_type>> \o AngleOrder(Tail(imgs), seen \cup {Head(imgs).image_type})

\* angle_groups[angle_type]: the images of one angle.
AngleImages(imgs, angle) == SelectSeq(imgs, LAMBDA im : im.image_type = angle)

\* The angle embedding: np.mean of the angle's image embeddings.
AngleEmbedding(imgs, angle, user_baseline) ==
  LET g == AngleImages(imgs, angle)
  IN  VMean([i \in 1 .. Len(g) |-> extract_embedding(g[i].content, user_baseline)])

\* round(np.mean(image_quality_scores_for_angle), 4).
AngleQuality(imgs, angle) ==
  LET g == AngleImages(imgs, angle)
  IN  RoundDiv(SumSeq([i \in 1 .. Len(g) |-> QualityScore(g[i].content)]), Len(g))

\* analyze_session steps 3 and 6 with the min(1.0, .) left out.
ChangeScoreUnclamped(embedding, user_baseline) ==
  IF ~IsNone(user_baseline) THEN _cosine_distance(embedding, Val(user_baseline)) ELSE 0

\* analyze_session steps 3 and 6: min(1.0, distance from the baseline), 0 for
\* a first session.
ChangeScore(embedding, user_baseline) ==
  IF ~IsNone(user_baseline) THEN Min(Grid, _cosine_distance(embedding, Val(user_baseline))) ELSE 0

\* analyze_session step 3: per_angle_results, in angle_groups order.
PerAngleResults(imgs, user_baseline) ==
  LET order == AngleOrder(imgs, {})
  IN  [i \in 1 .. Len(order) |->
        LET emb == AngleEmbedding(imgs, order[i], user_baseline)
            cs == ChangeScore(emb, user_baseline)
        IN  [angle_type |-> order[i],
             embedding |-> emb,
             change_score |-> cs,
             variation_level |-> variation_level(cs),
             angle_quality_score |-> AngleQuality(imgs, order[i])]] \o <<>>

\* analyze_session step 4 averaging only the angle embeddings of non-zero norm.
SessionEmbeddingNonZero(per_angle) ==
  LET kept == SelectSeq(per_angle, LAMBDA r : ~IsZeroNorm(r.embedding))
  IN  IF kept = <<>> THEN VZero ELSE VMean([i \in 1 .. Len(kept) |-> kept[i].embedding])

\* analyze_session step 4: the mean of the angle embeddings.
SessionEmbedding(per_angle) ==
  VMean([i \in 1 .. Len(per_angle) |-> per_angle[i].embedding])

\* ------------------------------------------------------------------- tables
\* A table is the sequence of its rows in insertion order.
Delete(table, session_id) == SelectSeq(table, LAMBDA r : r.session_id # session_id)
RowsOf(table, session_id) == SelectSeq(table, LAMBDA r : r.session_id = session_id)
RowSet(table) == {table[i] : i \in 1 .. Len(table)}

\* .order("created_at", desc=True).limit(n): the n newest of the rows.
NewestN(rows, n) ==
  SelectSeq(rows, LAMBDA r : Cardinality({i \in 1 .. Len(rows) : rows[i].created_at > r.created_at}) < n)

\* The deployments: which optional tables and columns the store has.
SchemaPhase5 == [angle_embeddings |-> TRUE, trend_score |-> TRUE, phase5 |-> TRUE, angle_quality_score |-> TRUE]
SchemaPhase4 == [angle_embeddings |-> TRUE, trend_score |-> TRUE, phase5 |-> FALSE, angle_quality_score |-> FALSE]
SchemaNoTrend == [angle_embeddings |-> TRUE, trend_score |-> FALSE, phase5 |-> FALSE, angle_quality_score |-> FALSE]
SchemaPhase3 == [angle_embeddings |-> FALSE, trend_score |-> FALSE, phase5 |-> FALSE, angle_quality_score |-> FALSE]
Schemas == {SchemaPhase5, SchemaPhase4, SchemaNoTrend, SchemaPhase3}

\* A storage fault of one request: the named operation raises whenever the
\* request attempts it.
Faults == {"none", "angle_embeddings_insert", "session_embeddings_insert", "angle_analysis_insert", "session_analysis_insert"}

\* --------------------------------------------------- analysis_service loaders
\* _load_user_baseline's query with the .neq("session_id", ...) filter left out.
BaselineRowsNoExclude(se, user_id, exclude_session_id) ==
  SelectSeq(se, LAMBDA r : r.user_id = user_id)

\* _load_user_baseline's query: the user's rows but the analysed session's.
BaselineRows(se, user_id, exclude_session_id) ==
  SelectSeq(se, LAMBDA r : r.user_id = user_id /\ r.session_id # exclude_session_id)

\* _load_user_baseline with the .eq("user_id", ...) filter left out: the mean
\* over the rows of every user.
LoadBaselineOfAllUsers(se, user_id, exclude_session_id) ==
  LET rows == SelectSeq(se, LAMBDA r : r.session_id # exclude_session_id)
  IN  IF rows = <<>> THEN None
      ELSE Some(VMean([i \in 1 .. Len(rows) |-> rows[i].embedding]))

\* _load_user_baseline: the mean of the rows' embeddings, None without rows.
_load_user_baseline(se, user_id, exclude_session_id) ==
  LET rows == BaselineRows(se, user_id, exclude_session_id)
  IN  IF rows = <<>> THEN None
      ELSE Some(VMean([i \in 1 .. Len(rows) |-> rows[i].embedding]))

\* A rational n / d in lowest terms (d > 0).
Rat(n, d) == LET g == GCD(Abs(n), d) IN [n |-> n \div g, d |-> d \div g]

\* _load_trend_score with the .neq("session_id", ...) filter left out.
TrendScoreNoExclude(sa, user_id, exclude_session_id) ==
  LET rows == NewestN(SelectSeq(sa, LAMBDA r : r.user_id = user_id), TREND_N)
  IN  IF rows = <<>> THEN None
      ELSE Some(Rat(SumSeq([i \in 1 .. Len(rows) |-> rows[i].overall_change_score]), Len(rows)))

\* _load_trend_score: the mean of the overall_change_score of the n newest
\* session_analysis rows of the user's other sessions; None without any.
_load_trend_score(sa, user_id, exclude_session_id) ==
  LET rows == NewestN(SelectSeq(sa, LAMBDA r : r.user_id = user_id /\ r.session_id # exclude_session_id), TREND_N)
  IN  IF rows = <<>> THEN None
      ELSE Some(Rat(SumSeq([i \in 1 .. Len(rows) |-> rows[i].overall_change_score]), Len(rows)))

\* ---------------------------------------------------- analysis_service stores
\* _store_session_embedding that inserts without deleting first.
StoreSessionEmbeddingAppend(se, session_id, user_id, embedding, created_at, fault) ==
  IF fault = "session_embeddings_insert" THEN [raised |-> TRUE, table |-> se]
  ELSE [raised |-> FALSE,
        table |-> Append(se, [session_id |-> session_id, user_id |-> user_id,
                              embedding |-> embedding, created_at |-> created_at])]

\* _store_session_embedding: delete the session's rows, then insert one.
_store_session_embedding(se, session_id, user_id, embedding, created_at, fault) ==
  LET deleted == Delete(se, session_id)
  IN  IF fault = "session_embeddings_insert" THEN [raised |-> TRUE, table |-> deleted]
      ELSE [raised |-> FALSE,
            table |-> Append(deleted, [session_id |-> session_id, user_id |-> user_id,
                                       embedding |-> embedding, created_at |-> created_at])]

\* _store_angle_embeddings: delete, then insert one row per angle; any
\* exception (no such table, a failed insert) is swallowed.
_store_angle_embeddings(ae, schema_, session_id, user_id, per_angle, fault) ==
  IF ~schema_.angle_embeddings THEN ae
  ELSE LET deleted == Delete(ae, session_id)
           rows == [i \in 1 .. Len(per_angle) |->
                     [session_id |-> session_id, user_id |-> user_id,
                      angle_type |-> per_angle[i].angle_type,
                      embedding |-> per_angle[i].embedding]] \o <<>>
       IN  IF fault = "angle_embeddings_insert" THEN deleted ELSE deleted \o rows

\* ---------------------------------------------------------- analyze_session
\* analysis_service.analyze_session on the tables se, ae, sa at time t: the
\* tables it leaves and what it returns (or that it raised).  The fields
\* baseline_sessions, baseline_users, own_embedding_stored and fault record,
\* for the properties, which rows the baseline was read from, whether the
\* session had a stored embedding of its own then, and the fault of the request.
analyze_session(se, ae, sa, schema_, imgs, user_id, session_id, t, fault) ==
  LET base_rows == BaselineRows(se, user_id, session_id)
      user_baseline == _load_user_baseline(se, user_id, session_id)
      is_first_session == IsNone(user_baseline)
      per_angle == PerAngleResults(imgs, user_baseline)
      session_embedding == SessionEmbedding(per_angle)
      ae2 == _store_angle_embeddings(ae, schema_, session_id, user_id, per_angle, fault)
      stored == _store_session_embedding(se, session_id, user_id, session_embedding, t, fault)
      overall_change_score == ChangeScore(session_embedding, user_baseline)
      trend_score == _load_trend_score(sa, user_id, session_id)
      angle_q == List([i \in 1 .. Len(per_angle) |-> per_angle[i].angle_quality_score])
      session_quality_score == compute_session_quality(angle_q)
      consistency_score == compute_consistency_score(List([i \in 1 .. Len(per_angle) |-> per_angle[i].change_score]))
      confidence == compute_analysis_confidence(session_quality_score, consistency_score, Len(per_angle), is_first_session)
  IN  [raised |-> stored.raised,
       se |-> stored.table,
       ae |-> ae2,
       result |->
         [session_id |-> session_id,
          user_id |-> user_id,
          per_angle |-> [i \in 1 .. Len(per_angle) |->
                          [angle_type |-> per_angle[i].angle_type,
                           change_score |-> per_angle[i].change_score,
                           variation_level |-> per_angle[i].variation_level,
                           angle_quality_score |-> per_angle[i].angle_quality_score]] \o <<>>,
          overall_change_score |-> overall_change_score,
          variation_level |-> variation_level(overall_change_score),
          trend_score |-> trend_score,
          is_first_session |-> is_first_session,
          analysis_confidence_score |-> confidence,
          session_quality_score |-> session_quality_score,
          consistency_score |-> consistency_score,
          total_images |-> Len(imgs),
          baseline_used |-> IF is_first_session THEN "none" ELSE "lifetime_mean",
          comparison_layers_used |-> IF is_first_session THEN <<>> ELSE <<"lifetime_baseline">>,
          baseline_sessions |-> [i \in 1 .. Len(base_rows) |-> base_rows[i].session_id],
          baseline_users |-> {base_rows[i].user_id : i \in 1 .. Len(base_rows)},
          own_embedding_stored |-> RowsOf(se, session_id) # <<>>,
          fault |-> fault]]

\* ---------------------------------------------------------- _persist_analysis
AngleAnalysisRows(session_id, user_id, result, with_quality) ==
  [i \in 1 .. Len(result.per_angle) |->
    [session_id |-> session_id, user_id |-> user_id,
     angle_type |-> result.per_angle[i].angle_type,
     change_score |-> Some(result.per_angle[i].change_score),
     angle_quality_score |-> IF with_quality THEN Some(result.per_angle[i].angle_quality_score) ELSE None]] \o <<>>

\* The session_analysis row of the first attempt (full), of the Phase 4
\* fallback (with trend_score) and of the bare minimum insert.
SessionAnalysisRow(session_id, user_id, result, t, shape) ==
  [session_id |-> session_id, user_id |-> user_id,
   overall_change_score |-> result.overall_change_score,
   trend_score |-> IF shape \in {"full", "fallback"} THEN result.trend_score ELSE None,
   analysis_confidence_score |-> IF shape = "full" THEN Some(result.analysis_confidence_score) ELSE None,
   session_quality_score |-> IF shape = "full" THEN Some(result.session_quality_score) ELSE None,
   created_at |-> t]

\* _persist_analysis with no retry: the first rejected insert raises.
PersistNoRetry(aa, sa, schema_, session_id, user_id, result, t, fault) ==
  LET overwritten == RowsOf(sa, session_id) # <<>>
      aa0 == Delete(aa, session_id)
      sa0 == Delete(sa, session_id)
  IN  IF fault = "angle_analysis_insert" \/ ~schema_.angle_quality_score
      THEN [raised |-> TRUE, aa |-> aa0, sa |-> sa0, overwritten |-> overwritten]
      ELSE IF fault = "session_analysis_insert" \/ ~schema_.phase5 \/ ~schema_.trend_score
      THEN [raised |-> TRUE, aa |-> aa0 \o AngleAnalysisRows(session_id, user_id, result, TRUE),
            sa |-> sa0, overwritten |-> overwritten]
      ELSE [raised |-> FALSE, aa |-> aa0 \o AngleAnalysisRows(session_id, user_id, result, TRUE),
            sa |-> Append(sa0, SessionAnalysisRow(session_id, user_id, result, t, "full")),
            overwritten |-> overwritten]

\* _persist_analysis: delete the session's analysis rows, insert the angle
\* rows (again without angle_quality_score if the insert is rejected), insert
\* the session row (full, then the Phase 4 subset, then the bare minimum).
_persist_analysis(aa, sa, schema_, session_id, user_id, result, t, fault) ==
  LET overwritten == RowsOf(sa, session_id) # <<>>
      aa0 == Delete(aa, session_id)
      sa0 == Delete(sa, session_id)
      aa1 == aa0 \o AngleAnalysisRows(session_id, user_id, result, schema_.angle_quality_score)
      shape == IF schema_.phase5 /\ schema_.trend_score THEN "full"
               ELSE IF schema_.trend_score THEN "fallback" ELSE "bare"
  IN  IF fault = "angle_analysis_insert"
      THEN [raised |-> TRUE, aa |-> aa0, sa |-> sa0, overwritten |-> overwritten]
      ELSE IF fault = "session_analysis_insert"
      THEN [raised |-> TRUE, aa |-> aa1, sa |-> sa0, overwritten |-> overwritten]
      ELSE [raised |-> FALSE, aa |-> aa1,
            sa |-> Append(sa0, SessionAnalysisRow(session_id, user_id, result, t, shape)),
            overwritten |-> overwritten]

\* -------------------------------------------------- comparison_service loaders
\* The keys of a dict built from rows, in insertion order.
RECURSIVE KeyOrder(_, _)
KeyOrder(rows, seen) ==
  IF rows = <<>> THEN <<>>
  ELSE IF Head(rows).angle_type \in seen THEN KeyOrder(Tail(rows), seen)
  ELSE <<Head(rows).angle_type>> \o KeyOrder(Tail(rows), seen \cup {Head(rows).angle_type})

\* The value a dict built from rows holds for a key: that of the last row.
LastOf(rows, angle) ==
  LET hits == SelectSeq(rows, LAMBDA r : r.angle_type = angle) IN hits[Len(hits)]

\* float(x or 0.0) of a nullable score column.
FloatOrZero(x) == IF IsNone(x) THEN 0 ELSE Val(x)

\* _load_angle_scores: angle_type -> float(change_score or 0.0) of the
\* session's angle_analysis rows, as the list of (key, value) in dict order.
_load_angle_scores(aa, session_id) ==
  LET rows == RowsOf(aa, session_id)
      keys == KeyOrder(rows, {})
  IN  List([i \in 1 .. Len(keys) |->
             [angle_type |-> keys[i], score |-> FloatOrZero(LastOf(rows, keys[i]).change_score)]])

\* _load_angle_embeddings: angle_type -> embedding, {} when the table is missing.
_load_angle_embeddings(ae, schema_, session_id) ==
  IF ~schema_.angle_embeddings THEN <<>>
  ELSE LET rows == RowsOf(ae, session_id)
           keys == KeyOrder(rows, {})
       IN  List([i \in 1 .. Len(keys) |-> [angle_type |-> keys[i], embedding |-> LastOf(rows, keys[i]).embedding]])

\* dict.get(key): the value as an option.
Get(dict, angle, field) ==
  LET hits == SelectSeq(dict, LAMBDA e : e.angle_type = angle)
  IN  IF hits = <<>> THEN None ELSE Some(hits[1][field])

\* _load_session_embedding: the session's row (limit 1), None without one.
_load_session_embedding(se, session_id) ==
  LET rows == RowsOf(se, session_id)
  IN  IF rows = <<>> THEN None ELSE Some(rows[1].embedding)

\* The rows _load_rolling_baseline, _load_monthly_baseline and
\* _load_lifetime_baseline read.
RollingRows(se, user_id, current_session_id) ==
  NewestN(SelectSeq(se, LAMBDA r : r.user_id = user_id /\ r.session_id # current_session_id), ROLLING_N)
MonthlyRows(se, user_id, current_session_id, t) ==
  SelectSeq(se, LAMBDA r : r.user_id = user_id /\ r.session_id # current_session_id /\ r.created_at >= t - MONTH_DAYS)
LifetimeRows(se, user_id, current_session_id) ==
  SelectSeq(se, LAMBDA r : r.user_id = user_id /\ r.session_id # current_session_id)

\* _mean_of_embeddings of the rows' embeddings: None for no rows.
_mean_of_embeddings(rows) ==
  IF rows = <<>> THEN None ELSE Some(VMean([i \in 1 .. Len(rows) |-> rows[i].embedding]))

\* The delta of one baseline layer: None unless both embeddings exist.
LayerDelta(current_emb, baseline) ==
  IF ~IsNone(current_emb) /\ ~IsNone(baseline)
  THEN Some(Rat(cmp_cosine_distance(Val(current_emb), Val(baseline)), 1))
  ELSE None

\* comparison_service._trend_label of a rational distance (units of 1/Grid).
_trend_label(delta) ==
  IF delta.n * 100 < STABLE_THRESHOLD * Grid * delta.d THEN "stable"
  ELSE IF delta.n * 100 < MILD_THRESHOLD * Grid * delta.d THEN "mild_variation"
  ELSE "significant_shift"

\* A layer that reports a flag it has no delta for.
LayerAlwaysAvailable(delta, rows) ==
  [delta |-> delta,
   trend |-> IF IsNone(delta) THEN None ELSE Some(_trend_label(Val(delta))),
   available |-> TRUE,
   sessions |-> [i \in 1 .. Len(rows) |-> rows[i].session_id],
   users |-> {rows[i].user_id : i \in 1 .. Len(rows)}]

\* One baseline layer of the result: delta, trend, available.
Layer(delta, rows) ==
  [delta |-> delta,
   trend |-> IF IsNone(delta) THEN None ELSE Some(_trend_label(Val(delta))),
   available |-> ~IsNone(delta),
   sessions |-> [i \in 1 .. Len(rows) |-> rows[i].session_id],
   users |-> {rows[i].user_id : i \in 1 .. Len(rows)}]

\* --------------------------------------------------------- compare_sessions
\* Layer 5: the per-angle entries, for the angles of the current session that
\* the previous session has a score for.
ComparePerAngle(current_scores, previous_scores, current_angle_embs, previous_angle_embs) ==
  LET both == SelectSeq(current_scores, LAMBDA e : ~IsNone(Get(previous_scores, e.angle_type, "score")))
  IN  [i \in 1 .. Len(both) |->
        LET angle == both[i].angle_type
            previous_score == Val(Get(previous_scores, angle, "score"))
            score_delta == both[i].score - previous_score
            c_angle_emb == Get(current_angle_embs, angle, "embedding")
            p_angle_emb == Get(previous_angle_embs, angle, "embedding")
        IN  [angle_type |-> angle,
             current_score |-> both[i].score,
             previous_score |-> previous_score,
             delta |-> score_delta,
             delta_magnitude |-> Abs(score_delta),
             embedding_distance |->
               IF ~IsNone(c_angle_emb) /\ ~IsNone(p_angle_emb)
               THEN Some(cmp_cosine_distance(Val(c_angle_emb), Val(p_angle_emb)))
               ELSE None]] \o <<>>

\* The guard of compare_sessions that tests the current session's scores only.
MissingAnalysisCurrentOnly(current_scores, previous_scores) ==
  current_scores = <<>>

\* compare_sessions: if not current_scores or not previous_scores.
MissingAnalysis(current_scores, previous_scores) ==
  current_scores = <<>> \/ previous_scores = <<>>

\* compare_sessions: stability_index = max(0.0, min(1.0, 1.0 - overall_delta)).
StabilityIndex(overall_delta) ==
  Rat(Max(0, Min(Grid * overall_delta.d, Grid * overall_delta.d - overall_delta.n)), overall_delta.d)

\* comparison_service.compare_sessions at time t: raised (the ValueError) or
\* the result.  The layers' sessions and users fields record, for the
\* properties, the rows each baseline was read from.
compare_sessions(aa, se, ae, schema_, current_session_id, previous_session_id, user_id, t) ==
  LET current_scores == _load_angle_scores(aa, current_session_id)
      previous_scores == _load_angle_scores(aa, previous_session_id)
      current_emb == _load_session_embedding(se, current_session_id)
      previous_emb == _load_session_embedding(se, previous_session_id)
      current_angle_embs == _load_angle_embeddings(ae, schema_, current_session_id)
      previous_angle_embs == _load_angle_embeddings(ae, schema_, previous_session_id)
      comparison_method == IF ~IsNone(current_emb) /\ ~IsNone(previous_emb) THEN "embedding" ELSE "score"
      immediate_delta == IF comparison_method = "embedding"
                         THEN Rat(cmp_cosine_distance(Val(current_emb), Val(previous_emb)), 1)
                         ELSE Rat(0, 1)
      rolling_rows == RollingRows(se, user_id, current_session_id)
      monthly_rows == MonthlyRows(se, user_id, current_session_id, t)
      lifetime_rows == LifetimeRows(se, user_id, current_session_id)
      rolling_delta == LayerDelta(current_emb, _mean_of_embeddings(rolling_rows))
      monthly_delta == LayerDelta(current_emb, _mean_of_embeddings(monthly_rows))
      lifetime_delta == LayerDelta(current_emb, _mean_of_embeddings(lifetime_rows))
      per_angle == ComparePerAngle(current_scores, previous_scores, current_angle_embs, previous_angle_embs)
      score_deltas == List([i \in 1 .. Len(per_angle) |-> per_angle[i].delta_magnitude])
      avg_score_delta == IF score_deltas = <<>> THEN Rat(0, 1) ELSE Rat(SumSeq(score_deltas), Len(score_deltas))
      overall_delta == IF comparison_method = "embedding" THEN immediate_delta ELSE avg_score_delta
      stability == StabilityIndex(overall_delta)
  IN  IF MissingAnalysis(current_scores, previous_scores)
      THEN [raised |-> TRUE]
      ELSE [raised |-> FALSE,
            result |->
              [per_angle |-> per_angle,
               overall_delta |-> overall_delta,
               stability_index |-> stability,
               overall_trend |-> _trend_label(overall_delta),
               comparison_method |-> comparison_method,
               rolling_baseline |-> Layer(rolling_delta, rolling_rows),
               monthly_baseline |-> Layer(monthly_delta, monthly_rows),
               lifetime_baseline |-> Layer(lifetime_delta, lifetime_rows)]]

\* -------------------------------------------------------------------- state
VARIABLES
  images,              \* session id -> its rows of the images table
  schema,              \* the deployment's optional tables and columns
  session_embeddings,  \* the four tables the engine writes
  angle_embeddings,
  angle_analysis,
  session_analysis,
  now,                 \* the clock, in days
  runs,                \* analysis runs so far
  months,              \* months passed so far
  faults,              \* requests hit by a storage fault so far
  analysis,            \* what the last run of analyze_session returned
  resp,                \* the last response of an endpoint
  call,                \* the last application of a pure function
  closed,              \* a read-only request has been answered
  jobs,                \* _analysis_jobs: session id -> the entry, if any
  tasks                \* the background tasks added and not yet run

vars == <<images, schema, session_embeddings, angle_embeddings, angle_analysis,
          session_analysis, now, runs, months, faults, analysis, resp, call, closed,
          jobs, tasks>>
async == <<jobs, tasks>>
tables == <<session_embeddings, angle_embeddings, angle_analysis, session_analysis>>

\* The store of a fresh deployment: the image rows of the completed sessions,
\* no analysis yet.
InitStore ==
  /\ session_embeddings = <<>>
  /\ angle_embeddings = <<>>
  /\ angle_analysis = <<>>
  /\ session_analysis = <<>>
  /\ now = 0
  /\ runs = 0
  /\ months = 0
  /\ faults = 0
  /\ analysis = None
  /\ resp = None
  /\ call = None
  /\ closed = FALSE
  /\ jobs = [s \in DOMAIN images |-> None]
  /\ tasks = <<>>

\* The images table: two sessions of u1 with the same content, a third with
\* two images of one angle and a degenerate image; a session of u2, and one
\* with too few angles to be analysed.
InitImages ==
  images = [s \in Sessions |->
              CASE s \in {"s1", "s2"} -> SetA
                [] s = "s3" -> SetC
                [] s = "t1" -> SetB
                [] OTHER -> SetD]

Init ==
  /\ InitImages
  /\ schema = SchemaPhase5
  /\ InitStore

PresentTypes(imgs) == {imgs[i].image_type : i \in 1 .. Len(imgs)}

\* analysis_fetch_service.get_session_analysis: {} without a session_analysis
\* row of the session and user.
fetch_cached_analysis(sa, aa, session_id, user_id) ==
  LET session_rows == SelectSeq(sa, LAMBDA r : r.session_id = session_id /\ r.user_id = user_id)
      angle_rows == SelectSeq(aa, LAMBDA r : r.session_id = session_id /\ r.user_id = user_id)
  IN  IF session_rows = <<>> THEN None
      ELSE Some([session_id |-> session_id,
                 overall_change_score |-> session_rows[1].overall_change_score,
                 trend_score |-> session_rows[1].trend_score,
                 created_at |-> session_rows[1].created_at,
                 per_angle |-> angle_rows])

\* Whether the endpoint answers from the stored analysis.
Cached(sa, aa, session_id, user_id) ==
  LET c == fetch_cached_analysis(sa, aa, session_id, user_id)
  IN  ~IsNone(c) /\ Val(c).per_angle # <<>>

\* POST /analyze-session/{session_id}: session not found (404), fewer than
\* three angles (400).
AnalyzeRejected(u, s) ==
  /\ ~closed
  /\ Owner(s) # u \/ Cardinality(PresentTypes(images[s])) < MIN_ANGLES
  /\ resp' = Some([kind |-> "analyze", status |-> IF Owner(s) # u THEN 404 ELSE 400])
  /\ closed' = TRUE
  /\ UNCHANGED <<images, schema, async, tables, now, runs, months, faults, analysis, call>>

\* POST /analyze-session/{session_id} without force, the analysis stored: the
\* cached answer.
AnalyzeCached(u, s) ==
  /\ ~closed
  /\ Owner(s) = u
  /\ Cardinality(PresentTypes(images[s])) >= MIN_ANGLES
  /\ Cached(session_analysis, angle_analysis, s, u)
  /\ \E cached \in {Val(fetch_cached_analysis(session_analysis, angle_analysis, s, u))} :
       \E overall_score \in {cached.overall_change_score}, trend \in {cached.trend_score} :
         resp' = Some([kind |-> "analyze", session_id |-> s, user_id |-> u, status |-> 200,
                       from_cache |-> TRUE, overwritten |-> FALSE,
                       is_first_session |-> (overall_score = 0 /\ IsNone(trend)),
                       per_angle |-> [i \in 1 .. Len(cached.per_angle) |->
                                       [angle_type |-> cached.per_angle[i].angle_type,
                                        change_score |-> cached.per_angle[i].change_score,
                                        variation_level |-> variation_level(FloatOrZero(cached.per_angle[i].change_score)),
                                        angle_quality_score |-> cached.per_angle[i].angle_quality_score]],
                       change_score |-> overall_score,
                       variation_level |-> variation_level(overall_score),
                       trend_score |-> trend])
  /\ closed' = TRUE
  /\ UNCHANGED <<images, schema, async, tables, now, runs, months, faults, analysis, call>>

\* The synchronous path of the endpoint past its checks: run_analysis, then
\* _persist_analysis; an exception of either is a 500.
RunAndPersist(u, s, fault) ==
  /\ \E a \in {analyze_session(session_embeddings, angle_embeddings, session_analysis,
                               schema, images[s], u, s, now, fault)} :
     \E p \in {_persist_analysis(angle_analysis, session_analysis, schema, s, u, a.result, now, fault)} :
         /\ session_embeddings' = a.se
         /\ angle_embeddings' = a.ae
         /\ analysis' = IF a.raised THEN None ELSE Some(a.result)
         /\ angle_analysis' = IF a.raised THEN angle_analysis ELSE p.aa
         /\ session_analysis' = IF a.raised THEN session_analysis ELSE p.sa
         /\ resp' = IF a.raised \/ p.raised
                    THEN Some([kind |-> "analyze", status |-> 500])
                    ELSE Some([kind |-> "analyze", session_id |-> s, user_id |-> u, status |-> 200,
                               from_cache |-> FALSE, overwritten |-> p.overwritten,
                               is_first_session |-> a.result.is_first_session,
                               per_angle |-> a.result.per_angle,
                               change_score |-> a.result.overall_change_score,
                               variation_level |-> a.result.variation_level,
                               trend_score |-> a.result.trend_score,
                               analysis_confidence_score |-> a.result.analysis_confidence_score,
                               session_quality_score |-> a.result.session_quality_score,
                               baseline_used |-> a.result.baseline_used,
                               comparison_layers_used |-> a.result.comparison_layers_used])
  /\ now' = now + 1
  /\ runs' = runs + 1
  /\ faults' = IF fault = "none" THEN faults ELSE faults + 1
  /\ UNCHANGED <<images, schema, async, months, call, closed>>

\* POST /analyze-session/{session_id}, synchronous, not answered from the
\* cache.
AnalyzeRun(u, s, force, fault) ==
  /\ ~closed
  /\ Owner(s) = u
  /\ Cardinality(PresentTypes(images[s])) >= MIN_ANGLES
  /\ force \/ ~Cached(session_analysis, angle_analysis, s, u)
  /\ runs < MaxRuns
  /\ fault # "none" => faults < MaxFaults
  /\ RunAndPersist(u, s, fault)

\* The endpoint's try/except around run_comparison: the ValueError is a 404.
run_comparison(head, c) ==
  IF c.raised
  THEN Some(head @@ [status |-> 404, detail |-> "Missing analysis results for one or both sessions. Run analyze-session first."])
  ELSE Some(head @@ [status |-> 200, data |-> c.result])

\* POST /compare-sessions/{current}/{previous}: 400 for equal ids, 404 for a
\* session that is not the caller's, 404 for the service's ValueError.
CompareSessions(u, current_session_id, previous_session_id) ==
  /\ ~closed
  /\ \E head \in {[kind |-> "compare", user_id |-> u, current_session_id |-> current_session_id,
                    previous_session_id |-> previous_session_id]} :
       resp' =
           IF current_session_id = previous_session_id
           THEN Some([kind |-> "compare", status |-> 400, detail |-> "Current and previous session IDs must differ"])
           ELSE IF Owner(current_session_id) # u \/ Owner(previous_session_id) # u
           THEN Some([kind |-> "compare", status |-> 404, detail |-> "Session not found"])
           ELSE run_comparison(head, compare_sessions(angle_analysis, session_embeddings, angle_embeddings,
                                                      schema, current_session_id, previous_session_id, u, now))
  /\ closed' = TRUE
  /\ UNCHANGED <<images, schema, async, tables, now, runs, months, faults, analysis, call>>

Next ==
  \/ \E u \in Users, s \in Sessions : AnalyzeRejected(u, s)
  \/ \E u \in Users, s \in Sessions : AnalyzeCached(u, s)
  \/ \E u \in Users, s \in Sessions, force \in BOOLEAN, fault \in Faults : AnalyzeRun(u, s, force, fault)
  \/ \E u \in Users, c \in Sessions, p \in Sessions : CompareSessions(u, c, p)

Spec == Init /\ [][Next]_vars

\* ----------------------------------------------------------- the passing of time
\* A month and a day go by without a request.  The services read the clock
\* only for the cutoff of the monthly baseline, so time passes here only while
\* some stored session embedding is still inside the window: with none, a
\* later clock changes nothing a service reads.
MonthPasses ==
  /\ ~closed
  /\ months < MaxMonths
  /\ \E i \in 1 .. Len(session_embeddings) : session_embeddings[i].created_at >= now - MONTH_DAYS
  /\ months' = months + 1
  /\ now' = now + MONTH_DAYS + 1
  /\ UNCHANGED <<images, schema, async, tables, runs, faults, analysis, resp, call, closed>>

\* Requests months apart, with no storage fault.
NextMonth ==
  \/ \E u \in Users, s \in Sessions : AnalyzeRejected(u, s)
  \/ \E u \in Users, s \in Sessions : AnalyzeCached(u, s)
  \/ \E u \in Users, s \in Sessions, force \in BOOLEAN : AnalyzeRun(u, s, force, "none")
  \/ \E u \in Users, c \in Sessions, p \in Sessions : CompareSessions(u, c, p)
  \/ MonthPasses

SpecMonth == Init /\ [][NextMonth]_vars

\* ------------------------------------------------ deployments with an old schema
\* The store of any deployment, old ones included, with no storage fault.
InitDrift ==
  /\ InitImages
  /\ schema \in Schemas
  /\ InitStore

NextDrift ==
  \/ \E u \in Users, s \in Sessions : AnalyzeCached(u, s)
  \/ \E u \in Users, s \in Sessions, force \in BOOLEAN : AnalyzeRun(u, s, force, "none")
  \/ \E u \in Users, c \in Sessions, p \in Sessions : CompareSessions(u, c, p)

SpecDrift == InitDrift /\ [][NextDrift]_vars

\* ------------------------------------------------------ the distance functions
\* The largest coordinate of the vectors the distance functions are applied to.
MaxCoord == 3
Vectors == {VInt(x, y) : x \in -MaxCoord .. MaxCoord, y \in -MaxCoord .. MaxCoord}

\* One application of analysis_service._cosine_distance.
CallAnalysisDistance(a, b) ==
  /\ call = None
  /\ call' = Some([fn |-> "analysis_service._cosine_distance", a |-> a, b |-> b,
                   out |-> _cosine_distance(a, b)])
  /\ UNCHANGED <<images, schema, async, tables, now, runs, months, faults, analysis, resp, closed>>

\* One application of comparison_service._cosine_distance.
CallComparisonDistance(a, b) ==
  /\ call = None
  /\ call' = Some([fn |-> "comparison_service._cosine_distance", a |-> a, b |-> b,
                   out |-> cmp_cosine_distance(a, b)])
  /\ UNCHANGED <<images, schema, async, tables, now, runs, months, faults, analysis, resp, closed>>

\* variation_level applied to two scores of [0, 1].
CallVariationLevel(x, y) ==
  /\ call = None
  /\ call' = Some([fn |-> "quality.variation_level", a |-> x, b |-> y,
                   out |-> <<variation_level(x), variation_level(y)>>])
  /\ UNCHANGED <<images, schema, async, tables, now, runs, months, faults, analysis, resp, closed>>

\* The session quality and consistency scores tried (1/Q4), with both ends.
ScoreSamples == {0, 1, 2500, 5000, 8000, 9999, Q4}

\* compute_analysis_confidence applied to one quality, consistency and number
\* of angles, for a first-time and a returning user, and with full coverage.
CallConfidence(q, c, n) ==
  /\ call = None
  /\ call' = Some([fn |-> "quality.compute_analysis_confidence", q |-> q, c |-> c, n |-> n,
                   first |-> compute_analysis_confidence(q, c, n, TRUE),
                   returning |-> compute_analysis_confidence(q, c, n, FALSE),
                   full_first |-> compute_analysis_confidence(q, c, EXPECTED_ANGLES, TRUE),
                   full_returning |-> compute_analysis_confidence(q, c, EXPECTED_ANGLES, FALSE)])
  /\ UNCHANGED <<images, schema, async, tables, now, runs, months, faults, analysis, resp, closed>>

NextFn ==
  \/ \E a \in Vectors, b \in Vectors : CallAnalysisDistance(a, b)
  \/ \E a \in Vectors, b \in Vectors : CallComparisonDistance(a, b)
  \/ \E x \in 0 .. Grid, y \in 0 .. Grid : CallVariationLevel(x, y)
  \/ \E q \in ScoreSamples, c \in ScoreSamples, n \in 0 .. EXPECTED_ANGLES + 1 : CallConfidence(q, c, n)

SpecFn == Init /\ [][NextFn]_vars

\* ------------------------------------------------------------------ properties
\* The last response, when it is one of the given endpoint and status.
IsResp(kind, status) ==
  /\ resp # None
  /\ Val(resp).kind = kind
  /\ Val(resp).status = status

\* The layers of a comparison result.
LayersOf(data) == {data.rolling_baseline, data.monthly_baseline, data.lifetime_baseline}

\* The rows of a table without their created_at column.
Content(rows) ==
  [i \in 1 .. Len(rows) |-> [f \in DOMAIN rows[i] \ {"created_at"} |-> rows[i][f]]] \o <<>>

\* C1: every baseline an analysis or a comparison of session S of user U is
\* computed from is read from session_embeddings rows of U of sessions other
\* than S only, whatever runs (of S too) came before.
C1_BaselinesExcludeSession ==
  /\ analysis # None =>
       LET r == Val(analysis)
       IN  /\ \A i \in 1 .. Len(r.baseline_sessions) : r.baseline_sessions[i] # r.session_id
           /\ r.baseline_users \subseteq {r.user_id}
  /\ IsResp("compare", 200) =>
       \A layer \in LayersOf(Val(resp).data) :
         /\ \A i \in 1 .. Len(layer.sessions) : layer.sessions[i] # Val(resp).current_session_id
         /\ layer.users \subseteq {Val(resp).user_id}

\* S was analysed again while its own embedding was stored and other sessions
\* of the user had theirs, more than a month before; S was then compared
\* against its baselines, the monthly window holding fewer rows than the
\* lifetime one.
C1_Witness ==
  /\ analysis # None
  /\ Val(analysis).own_embedding_stored
  /\ Val(analysis).baseline_sessions # <<>>
  /\ IsResp("compare", 200)
  /\ Val(resp).current_session_id = Val(analysis).session_id
  /\ Val(resp).data.lifetime_baseline.available
  /\ Val(resp).data.rolling_baseline.available
  /\ Val(resp).data.monthly_baseline.sessions # Val(resp).data.lifetime_baseline.sessions

\* The step is an analysis run that no storage fault hit.
FaultFreeRun == runs' = runs + 1 /\ faults' = faults

\* The rows of the user's sessions other than the given one.
OtherRows(table, user_id, session_id) ==
  SelectSeq(table, LAMBDA row : row.user_id = user_id /\ row.session_id # session_id)

\* C2: an analysis run for a user with no stored session embedding but, at
\* most, the analysed session's own does not fail and returns
\* is_first_session = true, overall_change_score 0 labelled "Stable", change
\* score 0 for every angle present, baseline_used "none" and no comparison layer.
C2_FirstSessionResult ==
  [][FaultFreeRun =>
       /\ analysis' # None
       /\ LET r == Val(analysis')
          IN  OtherRows(session_embeddings, r.user_id, r.session_id) = <<>> =>
                /\ IsResp("analyze", 200)'
                /\ r.is_first_session
                /\ r.overall_change_score = 0
                /\ r.variation_level = "Stable"
                /\ Len(r.per_angle) = Cardinality(PresentTypes(images[r.session_id]))
                /\ \A i \in 1 .. Len(r.per_angle) : r.per_angle[i].change_score = 0
                /\ r.baseline_used = "none"
                /\ r.comparison_layers_used = <<>>]_vars

\* The user's only analysed session was analysed again, its own embedding
\* stored, and the run was a first session.
C2_Witness ==
  /\ analysis # None
  /\ Val(analysis).own_embedding_stored
  /\ Val(analysis).is_first_session
  /\ Val(analysis).baseline_sessions = <<>>
  /\ Val(analysis).fault = "none"
  /\ IsResp("analyze", 200)

\* The images of two sessions have the same content, angle by angle.
SameContent(s, t) == images[s] = images[t]

\* The embedding analyze_session stores for a first session with these images.
FirstSessionEmbedding(imgs) == SessionEmbedding(PerAngleResults(imgs, None))

\* C3: once a user's first session is analysed and stored, the analysis of a
\* second session whose images have the same content returns an
\* overall_change_score near 0 labelled "Stable", is_first_session = false
\* and baseline_used = "lifetime_mean".
C3_IdenticalSecondSessionStable ==
  analysis # None =>
    LET r == Val(analysis)
        first == OtherRows(session_embeddings, r.user_id, r.session_id)
    IN  ( /\ Len(first) = 1
          /\ r.baseline_sessions = <<first[1].session_id>>
          /\ SameContent(r.session_id, first[1].session_id)
          /\ first[1].embedding = FirstSessionEmbedding(images[first[1].session_id]) )
        => /\ r.variation_level = "Stable"
           /\ r.overall_change_score * 100 < VL_STABLE * Grid
           /\ ~r.is_first_session
           /\ r.baseline_used = "lifetime_mean"

\* C4: a second run of analyze_session for the same session, right after the
\* first and with the same images, leaves the session's session_embeddings
\* and angle_embeddings rows as the first run left them: one session row, one
\* row per angle present, the same content.
C4_RerunReplacesEmbeddings ==
  [][( /\ FaultFreeRun
       /\ analysis # None
       /\ analysis' # None
       /\ Val(analysis).fault = "none"
       /\ Val(analysis').session_id = Val(analysis).session_id )
     => LET s == Val(analysis).session_id
        IN  /\ Content(RowsOf(session_embeddings', s)) = Content(RowsOf(session_embeddings, s))
            /\ Content(RowsOf(angle_embeddings', s)) = Content(RowsOf(angle_embeddings, s))
            /\ Len(RowsOf(session_embeddings', s)) = 1
            /\ Len(RowsOf(angle_embeddings', s)) = Cardinality(PresentTypes(images[s]))]_vars

\* A session of the user was analysed first, then another session twice in
\* a row, the second run finding the rows of the first.
C4_Witness ==
  /\ runs = 3
  /\ faults = 0
  /\ analysis # None
  /\ Val(analysis).own_embedding_stored
  /\ Val(analysis).baseline_sessions # <<>>
  /\ \A row \in RowSet(OtherRows(session_analysis, Val(analysis).user_id, Val(analysis).session_id)) :
       row.trend_score = None
  /\ IsResp("analyze", 200)
  /\ Val(resp).overwritten
  /\ Len(RowsOf(session_embeddings, Val(analysis).session_id)) = 1
  /\ Len(RowsOf(angle_embeddings, Val(analysis).session_id)) = Len(Val(analysis).per_angle)

\* C5: whatever runs, re-runs and storage failures came before, a result of
\* analyze_session with is_first_session = true has overall_change_score 0
\* and trend_score None.
C5_FirstSessionHasNoTrend ==
  analysis # None /\ Val(analysis).is_first_session =>
    /\ Val(analysis).overall_change_score = 0
    /\ Val(analysis).trend_score = None

\* The distance of the session's stored embedding from the baseline of the
\* user's other sessions, before min(1.0, .).
RawDistance(r) ==
  _cosine_distance(RowsOf(session_embeddings, r.session_id)[1].embedding,
                   Val(_load_user_baseline(session_embeddings, r.user_id, r.session_id)))

\* C6: the overall_change_score and every angle's change_score that
\* analyze_session returns lie in [0, 1], also when the raw cosine distance
\* is above 1.
C6_ChangeScoresInUnitInterval ==
  analysis # None =>
    LET r == Val(analysis)
    IN  /\ r.overall_change_score \in 0 .. Grid
        /\ \A i \in 1 .. Len(r.per_angle) : r.per_angle[i].change_score \in 0 .. Grid

\* A run whose session embedding is more than 1 away from the baseline.
C6_Witness ==
  /\ analysis # None
  /\ ~Val(analysis).is_first_session
  /\ Val(analysis).fault = "none"
  /\ RawDistance(Val(analysis)) > Grid
  /\ Val(analysis).overall_change_score = Grid

\* C7: both copies of _cosine_distance return exactly 1.0 when either
\* argument (or both) has zero norm, whatever the other is, and never a value
\* that is not a number.
C7_ZeroNormDistanceIsOne ==
  (call # None /\ Val(call).fn \in {"analysis_service._cosine_distance", "comparison_service._cosine_distance"}) =>
    /\ Val(call).out # NotANumber
    /\ Val(call).out \in 0 .. 2 * Grid
    /\ IsZeroNorm(Val(call).a) \/ IsZeroNorm(Val(call).b) => Val(call).out = Grid

\* analysis_service._cosine_distance applied to a vector and the zero vector.
C7_Witness ==
  /\ call # None
  /\ Val(call).fn = "analysis_service._cosine_distance"
  /\ ~IsZeroNorm(Val(call).a)
  /\ IsZeroNorm(Val(call).b)
  /\ Val(call).out = Grid

\* The columns of the session's session_analysis and angle_analysis rows that
\* the deployment's schema lacks are empty.
ReducedRows(s) ==
  /\ \A row \in RowSet(RowsOf(session_analysis, s)) :
       /\ ~schema.trend_score => row.trend_score = None
       /\ ~schema.phase5 => row.analysis_confidence_score = None /\ row.session_quality_score = None
  /\ \A row \in RowSet(RowsOf(angle_analysis, s)) :
       ~schema.angle_quality_score => row.angle_quality_score = None

\* C8: on a store that lacks angle_quality_score, the Phase 5 columns of
\* session_analysis or trend_score as well, _persist_analysis retries with
\* fewer fields and does not raise: the session is left with exactly one
\* session_analysis row carrying the computed overall_change_score and one
\* angle_analysis row for each analysed angle.
C8_PersistSurvivesSchemaDrift ==
  [][FaultFreeRun =>
       /\ analysis' # None
       /\ IsResp("analyze", 200)'
       /\ LET r == Val(analysis')
              srows == RowsOf(session_analysis', r.session_id)
              arows == RowsOf(angle_analysis', r.session_id)
          IN  /\ Len(srows) = 1
              /\ srows[1].overall_change_score = r.overall_change_score
              /\ srows[1].user_id = r.user_id
              /\ Len(arows) = Len(r.per_angle)
              /\ \A i \in 1 .. Len(arows) :
                   /\ arows[i].angle_type = r.per_angle[i].angle_type
                   /\ arows[i].change_score = Some(r.per_angle[i].change_score)]_vars

\* An analysis persisted on a store without trend_score, the Phase 5 columns
\* and angle_quality_score: the rows are there, without those columns.
C8_Witness ==
  /\ ~schema.trend_score
  /\ ~schema.angle_quality_score
  /\ analysis # None
  /\ ~Val(analysis).is_first_session
  /\ IsResp("analyze", 200)
  /\ Len(RowsOf(session_analysis, Val(analysis).session_id)) = 1
  /\ RowsOf(session_analysis, Val(analysis).session_id)[1].trend_score = None
  /\ Val(analysis).trend_score # None
  /\ ReducedRows(Val(analysis).session_id)

\* The last response is that of a comparison of two sessions of the caller.
ComparedOwn ==
  /\ resp # None
  /\ Val(resp).kind = "compare"
  /\ "current_session_id" \in DOMAIN Val(resp)

\* C9: compare_sessions fails with the not-found condition (404 at the
\* endpoint) whenever the current or the previous session has no stored
\* angle_analysis rows, and returns a result whenever both have them.
C9_CompareNeedsBothAnalyses ==
  ComparedOwn =>
    LET r == Val(resp)
        missing == \/ RowsOf(angle_analysis, r.current_session_id) = <<>>
                   \/ RowsOf(angle_analysis, r.previous_session_id) = <<>>
    IN  /\ missing => r.status = 404 /\ "data" \notin DOMAIN r
        /\ ~missing => r.status = 200 /\ "data" \in DOMAIN r

\* The current session is analysed, the previous one is not: not found.
C9_Witness ==
  /\ ComparedOwn
  /\ RowsOf(angle_analysis, Val(resp).current_session_id) # <<>>
  /\ RowsOf(angle_analysis, Val(resp).previous_session_id) = <<>>
  /\ Val(resp).status = 404

\* C10: every delta of a comparison result is labelled by the five-level
\* variation_level classifier: a variation_level in each per-angle entry, an
\* overall_variation_level, and a variation_level in each baseline layer.
C10_CompareUsesVariationLevel ==
  IsResp("compare", 200) =>
    LET data == Val(resp).data
    IN  /\ "overall_variation_level" \in DOMAIN data
        /\ data.overall_variation_level \in VariationLevels
        /\ \A i \in 1 .. Len(data.per_angle) :
             /\ "variation_level" \in DOMAIN data.per_angle[i]
             /\ data.per_angle[i].variation_level = variation_level(data.per_angle[i].delta_magnitude)
        /\ \A layer \in LayersOf(data) :
             /\ "variation_level" \in DOMAIN layer
             /\ layer.available => layer.variation_level \in VariationLevels

\* C11: every change score a comparison reports (overall_delta and the delta
\* of the rolling, monthly and lifetime layers) lies in [0, 1], whatever the
\* stored embeddings.
C11_CompareDeltasInUnitInterval ==
  IsResp("compare", 200) =>
    LET data == Val(resp).data
    IN  /\ 0 <= data.overall_delta.n
        /\ data.overall_delta.n <= Grid * data.overall_delta.d
        /\ \A layer \in LayersOf(data) :
             layer.available =>
               /\ 0 <= Val(layer.delta).n
               /\ Val(layer.delta).n <= Grid * Val(layer.delta).d

\* ------------------------------------------- a store with rows of any writer
\* The angle_analysis rows two sessions of u1 may hold when the table was not
\* filled by _persist_analysis alone: for each angle no row, a row whose
\* change_score is null (the case _load_angle_scores' "or 0.0" provides for),
\* or a row with a score.  No session embedding is stored, so that the
\* comparison falls back on the scores.
StoredAngles == <<"front", "left", "right">>
CurrentCells == {<<>>, <<Some(8)>>}
PreviousCells == {<<>>, <<None>>, <<Some(0)>>, <<Some(6)>>}

RECURSIVE StoredRows(_, _, _)
StoredRows(session_id, cells, i) ==
  IF i > Len(StoredAngles) THEN <<>>
  ELSE (IF cells[StoredAngles[i]] = <<>> THEN <<>>
        ELSE <<[session_id |-> session_id, user_id |-> Owner(session_id),
                angle_type |-> StoredAngles[i],
                change_score |-> cells[StoredAngles[i]][1],
                angle_quality_score |-> None]>>)
       \o StoredRows(session_id, cells, i + 1)

InitStored ==
  /\ InitImages
  /\ schema = SchemaPhase5
  /\ session_embeddings = <<>>
  /\ angle_embeddings = <<>>
  /\ \E cur \in [{"front", "left", "right"} -> CurrentCells],
        prev \in [{"front", "left", "right"} -> PreviousCells] :
       angle_analysis = StoredRows("s1", cur, 1) \o StoredRows("s2", prev, 1)
  /\ session_analysis = <<>>
  /\ now = 0
  /\ runs = 0
  /\ months = 0
  /\ faults = 0
  /\ analysis = None
  /\ resp = None
  /\ call = None
  /\ closed = FALSE
  /\ jobs = [s \in DOMAIN images |-> None]
  /\ tasks = <<>>

NextStored ==
  \E u \in Users, c \in Sessions, p \in Sessions : CompareSessions(u, c, p)

SpecStored == InitStored /\ [][NextStored]_vars

\* The angles, in the order of the current session's rows, for which the
\* previous session holds a row with a score.
ScoredInBoth(current_session_id, previous_session_id) ==
  LET cur == KeyOrder(RowsOf(angle_analysis, current_session_id), {})
      prev == {row.angle_type : row \in {x \in RowSet(RowsOf(angle_analysis, previous_session_id)) :
                                           x.change_score # None}}
  IN  SelectSeq(cur, LAMBDA a : a \in prev)

MeanScoreDelta(current_session_id, previous_session_id) ==
  LET cur == RowsOf(angle_analysis, current_session_id)
      prev == RowsOf(angle_analysis, previous_session_id)
      both == SelectSeq(ScoredInBoth(current_session_id, previous_session_id),
                        LAMBDA a : LastOf(cur, a).change_score # None)
      mags == [i \in 1 .. Len(both) |->
                Abs(Val(LastOf(cur, both[i]).change_score) - Val(LastOf(prev, both[i]).change_score))]
  IN  IF both = <<>> THEN Rat(0, 1) ELSE Rat(SumSeq(mags), Len(both))

LayerRows(name, user_id, current_session_id) ==
  IF name = "rolling_baseline" THEN RollingRows(session_embeddings, user_id, current_session_id)
  ELSE IF name = "monthly_baseline" THEN MonthlyRows(session_embeddings, user_id, current_session_id, now)
  ELSE LifetimeRows(session_embeddings, user_id, current_session_id)

LayerNames == {"rolling_baseline", "monthly_baseline", "lifetime_baseline"}

\* C15: in a successful comparison each of the three baseline layers is
\* available exactly when the current session's embedding is stored and the
\* layer's own baseline has at least one row, whatever the other layers have;
\* an available layer carries the distance to its own baseline and a trend,
\* an unavailable one has delta None and trend None.
C15_LayersIndependent ==
  IsResp("compare", 200) =>
    \A name \in LayerNames :
      LET r == Val(resp)
          layer == r.data[name]
          rows == LayerRows(name, r.user_id, r.current_session_id)
          current_emb == _load_session_embedding(session_embeddings, r.current_session_id)
          present == ~IsNone(current_emb) /\ rows # <<>>
      IN  /\ layer.available = present
          /\ present => /\ layer.delta = LayerDelta(current_emb, _mean_of_embeddings(rows))
                        /\ ~IsNone(layer.delta)
                        /\ ~IsNone(layer.trend)
          /\ ~present => IsNone(layer.delta) /\ IsNone(layer.trend)

\* A comparison a month after the user's other sessions: the monthly layer is
\* unavailable, the lifetime and rolling layers report their deltas.
C15_Witness ==
  /\ IsResp("compare", 200)
  /\ ~Val(resp).data.monthly_baseline.available
  /\ IsNone(Val(resp).data.monthly_baseline.delta)
  /\ Val(resp).data.lifetime_baseline.available
  /\ Val(resp).data.rolling_baseline.available
  /\ ~IsNone(Val(resp).data.lifetime_baseline.delta)

\* ------------------------------------------------------------ a longer history
\* Seven completed sessions of u1 in the order they were captured
\* (sessions.created_at), more than the rolling and trend windows hold.
HistoryOrder == <<"h1", "h2", "h3", "h4", "h5", "h6", "h7">>
HistorySessions == {HistoryOrder[i] : i \in 1 .. Len(HistoryOrder)}
Captured(s) == CHOOSE i \in 1 .. Len(HistoryOrder) : HistoryOrder[i] = s

\* Three angles with one image each, all of the same content.
Uniform(content) == <<Img("front", content), Img("left", content), Img("right", content)>>

InitHistory ==
  /\ images = [s \in HistorySessions |->
                 CASE s = "h4" -> Uniform("a2")
                   [] s \in {"h5", "h6"} -> Uniform("z")
                   [] OTHER -> Uniform("a")]
  /\ schema = SchemaPhase5
  /\ InitStore

Analysed(s) == RowsOf(session_analysis, s) # <<>>

\* The user analyses each session once it is captured: the first analysis of
\* the sessions follows the capture order.
CapturedInOrder(s) ==
  /\ ~Analysed(s)
  /\ \A r \in HistorySessions : Captured(r) < Captured(s) => Analysed(r)

\* A forced analysis is of a session analysed before.
ForcedAgain(s) ==
  /\ Analysed(s)
  /\ runs - Len(session_analysis) < MaxReruns

\* POST /analyze-session/{session_id}, with ?force=true for a session analysed
\* before.
AnalyzeHistory(s, force) ==
  /\ ~closed
  /\ IF force THEN ForcedAgain(s) ELSE CapturedInOrder(s)
  /\ RunAndPersist("u1", s, "none")

NextHistory ==
  \/ \E s \in HistorySessions, force \in BOOLEAN : AnalyzeHistory(s, force)
  \/ \E c \in HistorySessions, p \in HistorySessions : CompareSessions("u1", c, p)

SpecHistory == InitHistory /\ [][NextHistory]_vars

\* ---------------------------------------------------------------------- C12
\* The n most recently captured of the rows' sessions.
CapturedNewestN(rows, n) ==
  SelectSeq(rows, LAMBDA r : Cardinality({i \in 1 .. Len(rows) : Captured(rows[i].session_id) > Captured(r.session_id)}) < n)

\* C12: in a successful comparison the rolling baseline is read from the
\* ROLLING_N most recently captured sessions of the user other than the
\* current one, and the rolling delta is the distance from their mean, also
\* after a forced re-analysis of an older session.
C12_RollingByCaptureTime ==
  IsResp("compare", 200) =>
    LET r == Val(resp)
        others == LifetimeRows(session_embeddings, r.user_id, r.current_session_id)
        recent == CapturedNewestN(others, ROLLING_N)
        layer == r.data.rolling_baseline
    IN  /\ {layer.sessions[i] : i \in 1 .. Len(layer.sessions)} = {recent[i].session_id : i \in 1 .. Len(recent)}
        /\ layer.delta = LayerDelta(_load_session_embedding(session_embeddings, r.current_session_id),
                                    _mean_of_embeddings(recent))

\* ---------------------------------------------------------------------- C16
\* The mean of the overall change scores of the TREND_N most recently stored
\* session_analysis rows of the user's sessions other than session_id, None
\* when the user has no such row.
TrendExpected(user_id, session_id) ==
  LET others == {i \in 1 .. Len(session_analysis) :
                   /\ session_analysis[i].user_id = user_id
                   /\ session_analysis[i].session_id # session_id}
      last == {i \in others :
                 Cardinality({j \in others : session_analysis[j].created_at > session_analysis[i].created_at}) < TREND_N}
      total == SumSeq([i \in 1 .. Len(session_analysis) |->
                         IF i \in last THEN session_analysis[i].overall_change_score ELSE 0])
  IN  IF others = {} THEN None ELSE Some(Rat(total, Cardinality(last)))

AllAngles == <<"front", "left", "right", "up", "down", "raised">>
ImageMean(imgs, angle, baseline) ==
  LET idx == {i \in 1 .. Len(imgs) : imgs[i].image_type = angle}
      terms == [i \in 1 .. Len(imgs) |->
                 IF i \in idx THEN extract_embedding(imgs[i].content, baseline) ELSE VZero]
  IN  VDiv(VSum(List(terms)), Cardinality(idx))

\* The unweighted mean over the angles present of their angle embeddings.
AngleMean(imgs, baseline) ==
  LET present == PresentTypes(imgs)
      terms == [i \in 1 .. Len(AllAngles) |->
                 IF AllAngles[i] \in present THEN ImageMean(imgs, AllAngles[i], baseline) ELSE VZero]
  IN  VDiv(VSum(List(terms)), Cardinality(present))

\* C17: a run of analyze_session that returns computes one angle embedding
\* for every angle with an image and none for the others, each the unweighted
\* mean of the angle's image embeddings, and stores as the session embedding
\* the unweighted mean of all of them; the angle_embeddings rows a run writes
\* are exactly those angle embeddings.
C17_SessionEmbeddingIsMeanOfAllAngles ==
  [][( /\ runs' = runs + 1
       /\ analysis' # None )
     => LET a == Val(analysis')
            s == a.session_id
            imgs == images[s]
            present == PresentTypes(imgs)
            base == _load_user_baseline(session_embeddings, a.user_id, s)
            srows == RowsOf(session_embeddings', s)
            arows == RowsOf(angle_embeddings', s)
        IN  /\ {a.per_angle[i].angle_type : i \in 1 .. Len(a.per_angle)} = present
            /\ Len(a.per_angle) = Cardinality(present)
            /\ Len(srows) = 1
            /\ srows[1].embedding = AngleMean(imgs, base)
            /\ (a.fault = "none" /\ schema.angle_embeddings) =>
                 /\ {arows[i].angle_type : i \in 1 .. Len(arows)} = present
                 /\ Len(arows) = Cardinality(present)
                 /\ \A i \in 1 .. Len(arows) :
                      arows[i].embedding = ImageMean(imgs, arows[i].angle_type, base)]_vars

\* A run for a returning user of a session with two images of one angle, a
\* degenerate image and two angles without image, its four angle rows stored.
C17_Witness ==
  /\ analysis # None
  /\ Val(analysis).fault = "none"
  /\ ~Val(analysis).is_first_session
  /\ Len(images[Val(analysis).session_id]) > Cardinality(PresentTypes(images[Val(analysis).session_id]))
  /\ Cardinality(PresentTypes(images[Val(analysis).session_id])) < Len(AllAngles)
  /\ Len(RowsOf(angle_embeddings, Val(analysis).session_id)) = Cardinality(PresentTypes(images[Val(analysis).session_id]))
  /\ Len(RowsOf(session_embeddings, Val(analysis).session_id)) = 1

\* ---------------------------------------------------------------------- C18
\* The place of a label in the order Stable < Mild < Moderate < Higher < Strong.
LevelRank(label) ==
  CASE label = "Stable" -> 1
    [] label = "Mild Variation" -> 2
    [] label = "Moderate Variation" -> 3
    [] label = "Higher Variation" -> 4
    [] label = "Strong Variation" -> 5

\* The label the five intervals give a score x / Grid of [0, 1].
IntervalLabel(x) ==
  CASE 100 * x < 10 * Grid -> "Stable"
    [] 10 * Grid <= 100 * x /\ 100 * x < 25 * Grid -> "Mild Variation"
    [] 25 * Grid <= 100 * x /\ 100 * x < 45 * Grid -> "Moderate Variation"
    [] 45 * Grid <= 100 * x /\ 100 * x < 70 * Grid -> "Higher Variation"
    [] 70 * Grid <= 100 * x -> "Strong Variation"

\* C18: variation_level is non-decreasing in its input and gives [0, 0.10)
\* Stable, [0.10, 0.25) Mild Variation, [0.25, 0.45) Moderate Variation,
\* [0.45, 0.70) Higher Variation and [0.70, 1.0] Strong Variation, each
\* breakpoint in the upper interval.
C18_VariationLevelMonotone ==
  (call # None /\ Val(call).fn = "quality.variation_level") =>
    LET c == Val(call)
    IN  /\ c.out[1] = IntervalLabel(c.a)
        /\ c.out[2] = IntervalLabel(c.b)
        /\ c.a <= c.b => LevelRank(c.out[1]) <= LevelRank(c.out[2])

\* variation_level applied to the breakpoint 0.25 and to 1.0.
C18_Witness ==
  /\ call # None
  /\ Val(call).fn = "quality.variation_level"
  /\ 100 * Val(call).a = 25 * Grid
  /\ Val(call).b = Grid
  /\ Val(call).out = <<"Moderate Variation", "Strong Variation">>

\* ---------------------------------------------------------------------- C19
\* C19: for quality and consistency in [0, 1] compute_analysis_confidence is
\* in [0, 1], strictly greater for a returning user than for a first-time
\* user, strictly greater with six angles than with fewer, the other inputs
\* equal, and 1.0 for quality 1, consistency 1, six angles, returning user.
C19_ConfidenceOrdering ==
  (call # None /\ Val(call).fn = "quality.compute_analysis_confidence") =>
    LET c == Val(call)
    IN  /\ {c.first, c.returning, c.full_first, c.full_returning} \subseteq 0 .. Q4
        /\ c.returning > c.first
        /\ c.full_returning > c.full_first
        /\ c.n < EXPECTED_ANGLES => (c.full_returning > c.returning /\ c.full_first > c.first)
        /\ (c.q = Q4 /\ c.c = Q4 /\ c.n = EXPECTED_ANGLES) => c.returning = Q4

\* The function applied to quality 1, consistency 1 and five angles: partial
\* coverage below full coverage, the full returning value 1.0.
C19_Witness ==
  /\ call # None
  /\ Val(call).fn = "quality.compute_analysis_confidence"
  /\ Val(call).q = Q4
  /\ Val(call).c = Q4
  /\ Val(call).n = EXPECTED_ANGLES - 1
  /\ Val(call).full_returning = Q4
  /\ Val(call).returning < Q4
  /\ Val(call).first < Val(call).returning

\* ------------------------------------------------------- asynchronous analysis
\* _analysis_jobs[session_id] = {"status": ..., "error": ...}.
SetJob(registry, session_id, status, error) ==
  [registry EXCEPT ![session_id] = Some([status |-> status, error |-> error])]

\* POST /analyze-session/{session_id}?async_process=true past the checks: the
\* job is registered as processing, the background task added, and the
\* response sent.
AnalyzeAsync(u, s) ==
  /\ ~closed
  /\ Owner(s) = u
  /\ Cardinality(PresentTypes(images[s])) >= MIN_ANGLES
  /\ runs + Len(tasks) < MaxRuns
  /\ jobs' = SetJob(jobs, s, "processing", None)
  /\ tasks' = Append(tasks, [session_id |-> s, user_id |-> u])
  /\ resp' = Some([kind |-> "analyze", session_id |-> s, user_id |-> u, status |-> 200,
                   job_status |-> "processing"])
  /\ UNCHANGED <<images, schema, tables, now, runs, months, faults, analysis, call, closed>>

\* _process_and_store's except clause without its assignment.
TaskExceptPass(registry, session_id, error) == registry

\* _process_and_store's except clause: the entry "failed" with str(exc).
TaskExcept(registry, session_id, error) == SetJob(registry, session_id, "failed", error)

\* _process_and_store, the background task: run_analysis, _persist_analysis,
\* then the registry entry "completed"; any exception makes it "failed" with
\* the exception's text.
_process_and_store(i, fault) ==
  /\ ~closed
  /\ i \in 1 .. Len(tasks)
  /\ fault # "none" => faults < MaxFaults
  /\ \E task \in {tasks[i]} :
     \E a \in {analyze_session(session_embeddings, angle_embeddings, session_analysis,
                               schema, images[task.session_id], task.user_id, task.session_id, now, fault)} :
     \E p \in {_persist_analysis(angle_analysis, session_analysis, schema, task.session_id, task.user_id,
                                 a.result, now, fault)} :
         /\ session_embeddings' = a.se
         /\ angle_embeddings' = a.ae
         /\ analysis' = IF a.raised THEN None ELSE Some(a.result)
         /\ angle_analysis' = IF a.raised THEN angle_analysis ELSE p.aa
         /\ session_analysis' = IF a.raised THEN session_analysis ELSE p.sa
         /\ jobs' = IF a.raised \/ p.raised
                    THEN TaskExcept(jobs, task.session_id, Some(fault))
                    ELSE SetJob(jobs, task.session_id, "completed", None)
  /\ tasks' = List([k \in 1 .. Len(tasks) - 1 |-> IF k < i THEN tasks[k] ELSE tasks[k + 1]])
  /\ now' = now + 1
  /\ runs' = runs + 1
  /\ faults' = IF fault = "none" THEN faults ELSE faults + 1
  /\ UNCHANGED <<images, schema, months, resp, call, closed>>

\* get_analyze_status with the session_analysis table asked before the registry.
StatusDatabaseFirst(registry, sa, session_id) ==
  IF RowsOf(sa, session_id) # <<>> THEN [status |-> "completed", error |-> None]
  ELSE IF ~IsNone(registry[session_id])
  THEN [status |-> Val(registry[session_id]).status, error |-> Val(registry[session_id]).error]
  ELSE [status |-> "not_started", error |-> None]

\* get_analyze_status past the ownership check: the registry entry, else
\* "completed" for a session_analysis row, else "not_started".
get_analyze_status(registry, sa, session_id) ==
  IF ~IsNone(registry[session_id])
  THEN [status |-> Val(registry[session_id]).status, error |-> Val(registry[session_id]).error]
  ELSE IF RowsOf(sa, session_id) # <<>> THEN [status |-> "completed", error |-> None]
  ELSE [status |-> "not_started", error |-> None]

\* GET /analyze-status/{session_id}: 404 for a session that is not the
\* caller's.
AnalyzeStatus(u, s) ==
  /\ ~closed
  /\ resp' = IF Owner(s) # u
             THEN Some([kind |-> "status", status |-> 404, detail |-> "Session not found"])
             ELSE Some([kind |-> "status", status |-> 200, session_id |-> s, user_id |-> u,
                        data |-> get_analyze_status(jobs, session_analysis, s)])
  /\ closed' = TRUE
  /\ UNCHANGED <<images, schema, async, tables, now, runs, months, faults, analysis, call>>

\* The faults a background task meets: none, one that makes run_analysis
\* raise, one that makes _persist_analysis raise.
TaskFaults == {"none", "session_embeddings_insert", "session_analysis_insert"}

\* A synchronous first analysis while background tasks may be pending.
AnalyzeSync(u, s) ==
  /\ runs + Len(tasks) < MaxRuns
  /\ AnalyzeRun(u, s, FALSE, "none")

\* Synchronous and asynchronous analyses, the background tasks hit by storage
\* faults, and status requests.
NextAsync ==
  \/ \E u \in Users, s \in Sessions : AnalyzeAsync(u, s)
  \/ \E i \in 1 .. MaxRuns, fault \in TaskFaults : _process_and_store(i, fault)
  \/ \E u \in Users, s \in Sessions : AnalyzeSync(u, s)
  \/ \E u \in Users, s \in Sessions : AnalyzeStatus(u, s)

SpecAsync == Init /\ [][NextAsync]_vars

\* The asynchronous requests and their background tasks alone.
NextBackground ==
  \/ \E u \in Users, s \in Sessions : AnalyzeAsync(u, s)
  \/ \E i \in 1 .. MaxRuns, fault \in TaskFaults : _process_and_store(i, fault)

\* A background task has run.
TaskRuns == Len(tasks') < Len(tasks)

\* The server runs every background task it has added.  This is weak
\* fairness of the background tasks, WF_vars(\E i, fault : _process_and_store(i, fault)),
\* written out: a task that has been added can always run (with no fault),
\* so the action is enabled exactly while tasks is not empty, and its steps
\* are those that take a task off the list.
TasksAreRun ==
  \/ []<>(tasks = <<>>)
  \/ []<><<TaskRuns>>_vars

SpecBackground == Init /\ [][NextBackground]_vars /\ TasksAreRun

\* ---------------------------------------------------------------------- C20
\* C20: a status request for a session of the caller answers with the status
\* and error of the session's registry entry when there is one (processing,
\* completed or failed), otherwise with "completed" when the session has a
\* session_analysis row and with "not_started" when it has neither.
C20_StatusFromRegistryThenStore ==
  IsResp("status", 200) =>
    LET r == Val(resp)
        job == jobs[r.session_id]
        has_row == \E i \in 1 .. Len(session_analysis) : session_analysis[i].session_id = r.session_id
    IN  /\ Owner(r.session_id) = r.user_id
        /\ ~IsNone(job) => /\ r.data.status = Val(job).status
                           /\ r.data.error = Val(job).error
                           /\ r.data.status \in {"processing", "completed", "failed"}
        /\ (IsNone(job) /\ has_row) => (r.data.status = "completed" /\ IsNone(r.data.error))
        /\ (IsNone(job) /\ ~has_row) => (r.data.status = "not_started" /\ IsNone(r.data.error))

\* The status of a session analysed before whose background job failed: the
\* registry's "failed" with its error, although a session_analysis row exists.
C20_Witness ==
  /\ IsResp("status", 200)
  /\ Val(resp).data.status = "failed"
  /\ ~IsNone(Val(resp).data.error)
  /\ \E i \in 1 .. Len(session_analysis) : session_analysis[i].session_id = Val(resp).session_id

\* ---------------------------------------------------------------------- C21
\* C21: whenever the session of a status request has a session_analysis row
\* and no background task for it is pending or running, the status reported
\* is "completed" (also after an asynchronous run of the session failed and a
\* later synchronous run stored its result).
C21_StoredAnalysisReportsCompleted ==
  IsResp("status", 200) =>
    LET r == Val(resp)
        has_row == \E i \in 1 .. Len(session_analysis) : session_analysis[i].session_id = r.session_id
        running == \E k \in 1 .. Len(tasks) : tasks[k].session_id = r.session_id
    IN  (has_row /\ ~running) => r.data.status = "completed"

\* ------------------------------------------- background tasks, statement by statement
\* Two requests with async_process=true give two background tasks that the
\* server runs on worker threads: their statements interleave.  Here a task
\* is a record of tasks that stays in the list: its place in
\* _process_and_store (pc), its local variables (user_baseline with the
\* sessions it was read from, per_angle, session_embedding, result) and the
\* exception it met (error).
MaxJobs == 2

\* The sessions the asynchronous requests are for.
JobSessions == {"s1", "s2"}

NewTask(u, s) ==
  [session_id |-> s, user_id |-> u, pc |-> "start", user_baseline |-> None,
   baseline_sessions |-> <<>>, per_angle |-> <<>>, session_embedding |-> None,
   result |-> None, error |-> None]

At(i, pc) == i \in 1 .. Len(tasks) /\ tasks[i].pc = pc
Goto(i, pc) == [tasks EXCEPT ![i].pc = pc]

\* analyze_session steps 6 to 8: what it returns to the task, the part
\* _persist_analysis stores.
TaskResult(t, trend_score) ==
  LET is_first_session == IsNone(t.user_baseline)
      session_quality_score == compute_session_quality(List([i \in 1 .. Len(t.per_angle) |-> t.per_angle[i].angle_quality_score]))
      consistency_score == compute_consistency_score(List([i \in 1 .. Len(t.per_angle) |-> t.per_angle[i].change_score]))
  IN  [per_angle |-> t.per_angle,
       is_first_session |-> is_first_session,
       overall_change_score |-> ChangeScore(Val(t.session_embedding), t.user_baseline),
       trend_score |-> trend_score,
       session_quality_score |-> session_quality_score,
       analysis_confidence_score |->
         compute_analysis_confidence(session_quality_score, consistency_score, Len(t.per_angle), is_first_session)]

\* A fresh deployment, or one where u1 has had s1 analysed (synchronously, at
\* time 0).
InitJobs ==
  /\ InitImages
  /\ schema = SchemaPhase5
  /\ \E a \in {analyze_session(<<>>, <<>>, <<>>, SchemaPhase5, images["s1"], "u1", "s1", 0, "none")} :
     \E p \in {_persist_analysis(<<>>, <<>>, SchemaPhase5, "s1", "u1", a.result, 0, "none")} :
     \E analysed \in BOOLEAN :
       /\ session_embeddings = IF analysed THEN a.se ELSE <<>>
       /\ angle_embeddings = IF analysed THEN a.ae ELSE <<>>
       /\ angle_analysis = IF analysed THEN p.aa ELSE <<>>
       /\ session_analysis = IF analysed THEN p.sa ELSE <<>>
       /\ now = IF analysed THEN 1 ELSE 0
       /\ runs = IF analysed THEN 1 ELSE 0
  /\ months = 0
  /\ faults = 0
  /\ analysis = None
  /\ resp = None
  /\ call = None
  /\ closed = FALSE
  /\ jobs = [s \in DOMAIN images |-> None]
  /\ tasks = <<>>

\* POST /analyze-session/{session_id}?async_process=true past the checks.
AcceptAsync(u, s) ==
  /\ Owner(s) = u
  /\ Cardinality(PresentTypes(images[s])) >= MIN_ANGLES
  /\ Len(tasks) < MaxJobs
  /\ jobs' = SetJob(jobs, s, "processing", None)
  /\ tasks' = Append(tasks, NewTask(u, s))
  /\ resp' = Some([kind |-> "analyze", session_id |-> s, user_id |-> u, status |-> 200,
                   job_status |-> "processing"])
  /\ UNCHANGED <<images, schema, tables, now, runs, months, faults, analysis, call, closed>>

\* _process_and_store: _analysis_jobs[session_id] = processing.
TaskStart(i) ==
  /\ At(i, "start")
  /\ jobs' = SetJob(jobs, tasks[i].session_id, "processing", None)
  /\ tasks' = Goto(i, "baseline")
  /\ UNCHANGED <<images, schema, tables, now, runs, months, faults, analysis, resp, call, closed>>

\* analyze_session steps 1 to 4: _load_user_baseline, then the angle
\* embeddings and the session embedding.
TaskLoadBaseline(i) ==
  /\ At(i, "baseline")
  /\ \E t \in {tasks[i]} :
     \E rows \in {BaselineRows(session_embeddings, t.user_id, t.session_id)} :
     \E user_baseline \in {_load_user_baseline(session_embeddings, t.user_id, t.session_id)} :
     \E per_angle \in {PerAngleResults(images[t.session_id], user_baseline)} :
       tasks' = [tasks EXCEPT ![i] =
                   [t EXCEPT !.pc = "ae_delete",
                             !.user_baseline = user_baseline,
                             !.baseline_sessions = [k \in 1 .. Len(rows) |-> rows[k].session_id] \o <<>>,
                             !.per_angle = per_angle,
                             !.session_embedding = Some(SessionEmbedding(per_angle))]]
  /\ UNCHANGED <<images, schema, jobs, tables, now, runs, months, faults, analysis, resp, call, closed>>

\* _store_angle_embeddings: the delete; without the table the exception is
\* swallowed and the insert skipped.
TaskDeleteAngleEmbeddings(i) ==
  /\ At(i, "ae_delete")
  /\ angle_embeddings' = IF schema.angle_embeddings THEN Delete(angle_embeddings, tasks[i].session_id)
                         ELSE angle_embeddings
  /\ tasks' = Goto(i, IF schema.angle_embeddings THEN "ae_insert" ELSE "se_delete")
  /\ UNCHANGED <<images, schema, jobs, session_embeddings, angle_analysis, session_analysis,
                 now, runs, months, faults, analysis, resp, call, closed>>

\* _store_angle_embeddings: the insert of one row per angle.
TaskInsertAngleEmbeddings(i) ==
  /\ At(i, "ae_insert")
  /\ \E t \in {tasks[i]} :
     \E per_angle \in {t.per_angle} :
       angle_embeddings' = angle_embeddings \o
         ([k \in 1 .. Len(per_angle) |->
            [session_id |-> t.session_id, user_id |-> t.user_id,
             angle_type |-> per_angle[k].angle_type,
             embedding |-> per_angle[k].embedding]] \o <<>>)
  /\ tasks' = Goto(i, "se_delete")
  /\ UNCHANGED <<images, schema, jobs, session_embeddings, angle_analysis, session_analysis,
                 now, runs, months, faults, analysis, resp, call, closed>>

\* _store_session_embedding: the delete.
TaskDeleteSessionEmbedding(i) ==
  /\ At(i, "se_delete")
  /\ session_embeddings' = Delete(session_embeddings, tasks[i].session_id)
  /\ tasks' = Goto(i, "se_insert")
  /\ UNCHANGED <<images, schema, jobs, angle_embeddings, angle_analysis, session_analysis,
                 now, runs, months, faults, analysis, resp, call, closed>>

\* _store_session_embedding: the insert, which may raise.
TaskInsertSessionEmbedding(i, raises) ==
  /\ At(i, "se_insert")
  /\ raises => faults < MaxFaults
  /\ \E t \in {tasks[i]} :
       IF raises
       THEN /\ tasks' = [tasks EXCEPT ![i] = [t EXCEPT !.pc = "except", !.error = Some("session_embeddings_insert")]]
            /\ UNCHANGED <<session_embeddings, now>>
       ELSE /\ session_embeddings' = Append(session_embeddings,
                                            [session_id |-> t.session_id, user_id |-> t.user_id,
                                             embedding |-> Val(t.session_embedding), created_at |-> now])
            /\ now' = now + 1
            /\ tasks' = Goto(i, "trend")
  /\ faults' = IF raises THEN faults + 1 ELSE faults
  /\ UNCHANGED <<images, schema, jobs, angle_embeddings, angle_analysis, session_analysis,
                 runs, months, analysis, resp, call, closed>>

\* analyze_session steps 6 to 8: _load_trend_score and the scores.  (The
\* select of _persist_analysis that follows decides only its return value,
\* which the task drops.)
TaskLoadTrend(i) ==
  /\ At(i, "trend")
  /\ \E t \in {tasks[i]} :
     \E result \in {TaskResult(t, _load_trend_score(session_analysis, t.user_id, t.session_id))} :
       tasks' = [tasks EXCEPT ![i] = [t EXCEPT !.pc = "aa_delete", !.result = Some(result)]]
  /\ UNCHANGED <<images, schema, jobs, tables, now, runs, months, faults, analysis, resp, call, closed>>

\* _persist_analysis: the delete from angle_analysis.
TaskDeleteAngleAnalysis(i) ==
  /\ At(i, "aa_delete")
  /\ angle_analysis' = Delete(angle_analysis, tasks[i].session_id)
  /\ tasks' = Goto(i, "sa_delete")
  /\ UNCHANGED <<images, schema, jobs, session_embeddings, angle_embeddings, session_analysis,
                 now, runs, months, faults, analysis, resp, call, closed>>

\* _persist_analysis: the delete from session_analysis.
TaskDeleteSessionAnalysis(i) ==
  /\ At(i, "sa_delete")
  /\ session_analysis' = Delete(session_analysis, tasks[i].session_id)
  /\ tasks' = Goto(i, "aa_insert")
  /\ UNCHANGED <<images, schema, jobs, session_embeddings, angle_embeddings, angle_analysis,
                 now, runs, months, faults, analysis, resp, call, closed>>

\* _persist_analysis: the insert into angle_analysis (again without
\* angle_quality_score where the column is missing).
TaskInsertAngleAnalysis(i) ==
  /\ At(i, "aa_insert")
  /\ \E t \in {tasks[i]} :
       angle_analysis' = angle_analysis \o
         AngleAnalysisRows(t.session_id, t.user_id, Val(t.result), schema.angle_quality_score)
  /\ tasks' = Goto(i, "sa_insert")
  /\ UNCHANGED <<images, schema, jobs, session_embeddings, angle_embeddings, session_analysis,
                 now, runs, months, faults, analysis, resp, call, closed>>

\* _persist_analysis: the insert into session_analysis (in the shape the
\* schema takes), which may raise on every attempt.
TaskInsertSessionAnalysis(i, raises) ==
  /\ At(i, "sa_insert")
  /\ raises => faults < MaxFaults
  /\ \E t \in {tasks[i]} :
     \E shape \in {IF schema.phase5 /\ schema.trend_score THEN "full"
                   ELSE IF schema.trend_score THEN "fallback" ELSE "bare"} :
       IF raises
       THEN /\ tasks' = [tasks EXCEPT ![i] = [t EXCEPT !.pc = "except", !.error = Some("session_analysis_insert")]]
            /\ UNCHANGED <<session_analysis, now>>
       ELSE /\ session_analysis' = Append(session_analysis,
                                          SessionAnalysisRow(t.session_id, t.user_id, Val(t.result), now, shape))
            /\ now' = now + 1
            /\ tasks' = Goto(i, "return")
  /\ faults' = IF raises THEN faults + 1 ELSE faults
  /\ UNCHANGED <<images, schema, jobs, session_embeddings, angle_embeddings, angle_analysis,
                 runs, months, analysis, resp, call, closed>>

\* _process_and_store: _analysis_jobs[session_id] = completed.
TaskCompleted(i) ==
  /\ At(i, "return")
  /\ jobs' = SetJob(jobs, tasks[i].session_id, "completed", None)
  /\ tasks' = Goto(i, "done")
  /\ UNCHANGED <<images, schema, tables, now, runs, months, faults, analysis, resp, call, closed>>

\* _process_and_store: the exception caught.
TaskFailed(i) ==
  /\ At(i, "except")
  /\ jobs' = TaskExcept(jobs, tasks[i].session_id, tasks[i].error)
  /\ tasks' = Goto(i, "done")
  /\ UNCHANGED <<images, schema, tables, now, runs, months, faults, analysis, resp, call, closed>>

\* The statements of the background tasks.
TaskStep ==
  \E i \in 1 .. MaxJobs :
    \/ TaskStart(i)
    \/ TaskLoadBaseline(i)
    \/ TaskDeleteAngleEmbeddings(i)
    \/ TaskInsertAngleEmbeddings(i)
    \/ TaskDeleteSessionEmbedding(i)
    \/ \E raises \in BOOLEAN : TaskInsertSessionEmbedding(i, raises)
    \/ TaskLoadTrend(i)
    \/ TaskDeleteAngleAnalysis(i)
    \/ TaskDeleteSessionAnalysis(i)
    \/ TaskInsertAngleAnalysis(i)
    \/ \E raises \in BOOLEAN : TaskInsertSessionAnalysis(i, raises)
    \/ TaskCompleted(i)
    \/ TaskFailed(i)

NextJobs ==
  \/ \E u \in Users, s \in JobSessions : AcceptAsync(u, s)
  \/ TaskStep

SpecJobs == InitJobs /\ [][NextJobs]_vars

\* ---------------------------------------------------------------------- C22
\* The registry entry of a session says the job has ended.
JobEnded(s) == ~IsNone(jobs[s]) /\ Val(jobs[s]).status \in {"completed", "failed"}

\* No background task added for the session is left to run.
TasksDone(s) == \A i \in 1 .. Len(tasks) : tasks[i].session_id # s

\* C22: every job accepted with async_process=true, whose entry is set to
\* "processing", eventually has its entry set to "completed" or "failed";
\* once the background tasks of a session have run, its entry is never
\* "processing"; and a task that raised sets the entry of its session to
\* "failed" with the text of its exception.
C22_AcceptedJobEnds ==
  /\ \A s \in Sessions :
       (~IsNone(jobs[s]) /\ Val(jobs[s]).status = "processing") ~> JobEnded(s)
  /\ [](\A s \in Sessions : (~IsNone(jobs[s]) /\ TasksDone(s)) => JobEnded(s))
  /\ [][\A i \in 1 .. Len(tasks) :
          (TaskRuns /\ faults' > faults /\ tasks' = SubSeq(tasks, 1, i - 1) \o SubSeq(tasks, i + 1, Len(tasks))) =>
            /\ Val(jobs'[tasks[i].session_id]).status = "failed"
            /\ ~IsNone(Val(jobs'[tasks[i].session_id]).error)]_vars

\* A job has ended "failed" with its error and another "completed".
C22_Witness ==
  /\ tasks = <<>>
  /\ \E s \in Sessions, t \in Sessions :
       /\ jobs[t] = Some([status |-> "completed", error |-> None])
       /\ ~IsNone(jobs[s])
       /\ Val(jobs[s]).status = "failed"
       /\ ~IsNone(Val(jobs[s]).error)

\* ---------------------------------------------------------------------- C23
\* The background tasks of session s, and whether all of them have finished.
TasksOf(s) == {i \in 1 .. Len(tasks) : tasks[i].session_id = s}
Finished(s) == \A i \in TasksOf(s) : tasks[i].pc = "done"

\* The rows of a table for one angle of a session.
AngleRowsOf(table, s, angle) == SelectSeq(table, LAMBDA r : r.session_id = s /\ r.angle_type = angle)

\* C23: when two analysis runs of one session id overlap (two asynchronous
\* requests) and neither raises, then after both have finished the store
\* holds exactly one session_embeddings row and one session_analysis row of
\* the session, and at most one angle_embeddings row and one angle_analysis
\* row per angle: replace, never append, under every interleaving of the
\* deletes and inserts.
C23_OverlappingRunsReplace ==
  \A s \in JobSessions :
    (Cardinality(TasksOf(s)) = 2 /\ Finished(s) /\ faults = 0) =>
      /\ Len(RowsOf(session_embeddings, s)) = 1
      /\ Len(RowsOf(session_analysis, s)) = 1
      /\ \A angle \in PresentTypes(images[s]) :
           /\ Len(AngleRowsOf(angle_embeddings, s, angle)) <= 1
           /\ Len(AngleRowsOf(angle_analysis, s, angle)) <= 1

\* ---------------------------------------------------------------------- C24
\* Task i reads the user's baseline in this step (analyze_session step 1).
ReadsBaseline(i) == At(i, "baseline") /\ Len(tasks') = Len(tasks) /\ tasks'[i].pc = "ae_delete"

\* Another session of the task's user whose analysis was completed and
\* stored: its session_analysis row is there.
AnalysedBefore(i) ==
  {s \in JobSessions : /\ s # tasks[i].session_id
                       /\ Owner(s) = tasks[i].user_id
                       /\ RowsOf(session_analysis, s) # <<>>}

\* C24: when the user has another session T with a completed, stored
\* analysis, an analysis of session S never takes S for the first session and
\* always has T's embedding in its lifetime baseline, also while T is being
\* analysed again at the same time (no statement raising).
C24_BaselineSeesAnalysedSessions ==
  [][\A i \in 1 .. Len(tasks) :
       (ReadsBaseline(i) /\ faults = 0) =>
         \A s \in AnalysedBefore(i) :
           /\ ~IsNone(tasks'[i].user_baseline)
           /\ \E k \in 1 .. Len(tasks'[i].baseline_sessions) : tasks'[i].baseline_sessions[k] = s]_vars

\* ---------------------------------------------------------------------- C25
\* Session s holds the analysis of the very first run on the empty store (at
\* time 0), which found no baseline and reported is_first_session = true with
\* overall_change_score 0.
ReportedFirst(s) ==
  \E i \in 1 .. Len(session_analysis) :
    /\ session_analysis[i].session_id = s
    /\ session_analysis[i].created_at = 0
    /\ session_analysis[i].overall_change_score = 0

\* Other sessions of the user have been analysed and stored since.
OthersStored(u, s) ==
  \E i \in 1 .. Len(session_embeddings) :
    session_embeddings[i].user_id = u /\ session_embeddings[i].session_id # s

\* This step is an analysis run of session s that answers 200.
RunAnswers(s) ==
  /\ runs' = runs + 1
  /\ ~IsNone(resp')
  /\ Val(resp').kind = "analyze"
  /\ Val(resp').status = 200
  /\ Val(resp').session_id = s

\* C25: a session that was reported as the first session (is_first_session
\* true, overall_change_score 0) is reported so again by a forced
\* re-analysis run after other sessions of the user were analysed and stored:
\* is_first_session true, overall_change_score 0, baseline_used "none".
C25_FirstSessionStableUnderRerun ==
  [][\A s \in Sessions :
       (ReportedFirst(s) /\ OthersStored(Owner(s), s) /\ RunAnswers(s)) =>
         /\ Val(resp').is_first_session
         /\ Val(resp').change_score = 0
         /\ Val(resp').baseline_used = "none"]_vars

\* ---------------------------------------------------------------------- C26
\* The stored analysis of a session: its rows in the three tables.
StoredAnalysis(sa, aa, se, s) == <<RowsOf(sa, s), RowsOf(aa, s), RowsOf(se, s)>>

\* Session s has the rows of a successful analysis.
FullyAnalysed(s) ==
  /\ RowsOf(session_analysis, s) # <<>>
  /\ RowsOf(angle_analysis, s) # <<>>
  /\ RowsOf(session_embeddings, s) # <<>>

\* This step is an analysis run that failed while persisting (an insert
\* raised): the request is answered with 500.
RunFails ==
  /\ runs' = runs + 1
  /\ ~IsNone(resp')
  /\ Val(resp').kind = "analyze"
  /\ Val(resp').status = 500

\* C26: when a re-analysis of an already analysed session fails while
\* persisting (the insert into angle_analysis, session_analysis or
\* session_embeddings raises), the rows the previous successful analysis
\* stored for the session in session_analysis, angle_analysis and
\* session_embeddings are still there, unchanged.
C26_FailedRerunKeepsStoredAnalysis ==
  [][\A s \in Sessions :
       (FullyAnalysed(s) /\ RunFails) =>
         StoredAnalysis(session_analysis', angle_analysis', session_embeddings', s)
           = StoredAnalysis(session_analysis, angle_analysis, session_embeddings, s)]_vars

\* ---------------------------------------------------------------------- C27
\* This step answers the analyze-session request for s from the stored
\* analysis.
AnswersFromStore(s) ==
  /\ ~IsNone(resp')
  /\ resp' # resp \/ closed' # closed
  /\ Val(resp').kind = "analyze"
  /\ Val(resp').status = 200
  /\ Val(resp').session_id = s
  /\ Val(resp').from_cache

\* The session_analysis row of s was stored by the last analysis run, whose
\* result analysis still holds.
StoredByLastRun(s) ==
  /\ ~IsNone(analysis)
  /\ Val(analysis).session_id = s
  /\ \E i \in 1 .. Len(session_analysis) :
       session_analysis[i].session_id = s /\ session_analysis[i].created_at = now - 1

\* C27: an answer from the stored analysis runs no analysis and changes no
\* stored row, and its is_first_session, change_score and trend_score are
\* those the analysis run that stored the rows returned.
C27_CachedAnswerIsTheRunsResult ==
  [][\A s \in Sessions :
       AnswersFromStore(s) =>
         /\ runs' = runs
         /\ tables' = tables
         /\ StoredByLastRun(s) =>
              /\ Val(resp').is_first_session = Val(analysis).is_first_session
              /\ Val(resp').change_score = Val(analysis).overall_change_score
              /\ Val(resp').trend_score = Val(analysis).trend_score]_vars

\* ---------------------------------------------------------------------- C28
\* C28: while a background job of a session is still running, the registry
\* says "processing" for the session, never "completed" or "failed": with two
\* overlapping asynchronous requests for one session the entry stays
\* "processing" until the last of the two jobs has finished.
C28_ProcessingWhileAnyJobRuns ==
  \A s \in JobSessions :
    ~Finished(s) => (~IsNone(jobs[s]) /\ Val(jobs[s]).status = "processing")

\* ---------------------------------------------------------------------- C29
\* The rows of a table that user u owns.
Own(table, u) == SelectSeq(table, LAMBDA r : r.user_id = u)

\* The store as far as user u owns it.
OwnStore(u) ==
  <<Own(session_embeddings, u), Own(angle_embeddings, u), Own(angle_analysis, u), Own(session_analysis, u)>>

\* This step is an analysis run for user u that returned a result.
RunReturnsTo(u) ==
  /\ runs' = runs + 1
  /\ ~IsNone(analysis')
  /\ Val(analysis').user_id = u

\* This step answers a request of user u from the store without writing:
\* the cached analysis (kind "analyze") or a comparison (kind "compare").
ReadAnswersTo(u, kind) ==
  /\ closed' /\ ~closed
  /\ ~IsNone(resp')
  /\ Val(resp').kind = kind
  /\ Val(resp').status \in {200, 404}
  /\ "user_id" \in DOMAIN Val(resp')
  /\ Val(resp').user_id = u

\* C29: what analyze-session and compare-sessions return to user u is what
\* they return on the store reduced to the rows u owns, so it is the same in
\* any two stores that agree on u's rows, whatever other users have stored;
\* and a request of u changes no row of another user.
C29_ResultsDependOnOwnRowsOnly ==
  [][\A u \in Users :
       /\ RunReturnsTo(u) =>
            \E r \in {Val(analysis')} :
              /\ r = analyze_session(Own(session_embeddings, u), Own(angle_embeddings, u),
                                     Own(session_analysis, u), schema, images[r.session_id],
                                     u, r.session_id, now, r.fault).result
              /\ \A v \in Users \ {u} : OwnStore(v)' = OwnStore(v)
       /\ ReadAnswersTo(u, "analyze") =>
            \E r \in {Val(resp')} :
              /\ fetch_cached_analysis(session_analysis, angle_analysis, r.session_id, u)
                   = fetch_cached_analysis(Own(session_analysis, u), Own(angle_analysis, u), r.session_id, u)
              /\ tables' = tables
       /\ ReadAnswersTo(u, "compare") =>
            \E r \in {Val(resp')} :
              /\ resp' = run_comparison([kind |-> "compare", user_id |-> u,
                                         current_session_id |-> r.current_session_id,
                                         previous_session_id |-> r.previous_session_id],
                                        compare_sessions(Own(angle_analysis, u), Own(session_embeddings, u),
                                                         Own(angle_embeddings, u), schema,
                                                         r.current_session_id, r.previous_session_id, u, now))
              /\ tables' = tables
       /\ (\A v \in Users \ {u} : OwnStore(v)' = OwnStore(v)) \/ OwnStore(u)' = OwnStore(u)]_vars

\* User u has just had a session analysed against an own baseline, and has
\* had two analysed sessions compared, while another user has stored rows.
C29_Witness ==
  \E u \in Users, v \in Users :
    /\ u # v
    /\ Own(session_embeddings, v) # <<>>
    /\ Own(session_analysis, v) # <<>>
    /\ ~IsNone(analysis)
    /\ Val(analysis).user_id = u
    /\ ~Val(analysis).is_first_session
    /\ IsResp("compare", 200)
    /\ Val(resp).user_id = u

\* -------------------------------------------------- GET /session-info/{id}
\* The backend only reads the sessions table; the clients create its rows.
\* A sessions table here is a sequence of rows with distinct ids and
\* distinct creation times (the position in the sequence), at most
\* MaxSessions of them.
MaxSessions == 4

SessionTables ==
  {[i \in 1 .. Len(ids) |-> [id |-> ids[i], user_id |-> Owner(ids[i]), created_at |-> i]] :
     ids \in {q \in UNION {[1 .. n -> Sessions] : n \in 0 .. MaxSessions} :
                \A i \in DOMAIN q, j \in DOMAIN q : q[i] = q[j] => i = j}}

\* .order("created_at", desc=...): the rows sorted by creation time.
RECURSIVE OrderByCreatedAt(_, _)
OrderByCreatedAt(rows, desc) ==
  IF rows = <<>> THEN <<>>
  ELSE LET first == CHOOSE r \in RowSet(rows) :
                      \A o \in RowSet(rows) :
                        IF desc THEN o.created_at <= r.created_at ELSE o.created_at >= r.created_at
       IN  <<first>> \o OrderByCreatedAt(SelectSeq(rows, LAMBDA r : r # first), desc)

\* .limit(n): the first n rows.
Limit(rows, n) == SubSeq(rows, 1, Min(n, Len(rows)))

\* utility.get_session_info: 404 unless get_session finds the session for the
\* user; else the counts and flags of the session among the user's sessions.
get_session_info(sessions, user_id, session_id) ==
  LET session == SelectSeq(sessions, LAMBDA r : r.id = session_id /\ r.user_id = user_id)
      user_rows == SelectSeq(sessions, LAMBDA r : r.user_id = user_id)
      total_sessions == Len(user_rows)
      oldest_rows == Limit(OrderByCreatedAt(user_rows, FALSE), 1)
      is_first_session == oldest_rows # <<>> /\ oldest_rows[1].id = session_id
      latest_rows == Limit(OrderByCreatedAt(user_rows, TRUE), 1)
      is_current == latest_rows # <<>> /\ latest_rows[1].id = session_id
      session_rows == Limit(OrderByCreatedAt(user_rows, TRUE), 2)
  IN  IF session = <<>> THEN [status |-> 404]
      ELSE [status |-> 200,
            session_id |-> session_id,
            is_first_session |-> is_first_session,
            is_current |-> is_current,
            total_sessions |-> total_sessions,
            created_at |-> session[1].created_at,
            previous_session_id |-> IF ~is_first_session /\ Len(session_rows) >= 2
                                    THEN Some(session_rows[2].id) ELSE None]

\* GET /session-info/{session_id} by user u on a sessions table.
GetSessionInfo(sessions, u, s) ==
  /\ call = None
  /\ call' = Some([fn |-> "utility.get_session_info", sessions |-> sessions,
                   user_id |-> u, session_id |-> s,
                   out |-> get_session_info(sessions, u, s)])
  /\ UNCHANGED <<images, schema, async, tables, now, runs, months, faults, analysis, resp, closed>>

NextInfo == \E sessions \in SessionTables, u \in Users, s \in Sessions : GetSessionInfo(sessions, u, s)

SpecInfo == Init /\ [][NextInfo]_vars

\* ---------------------------------------------------------------------- C30
\* The rows of the user's sessions created before session s.
CreatedBefore(sessions, u, s) ==
  {r \in RowSet(sessions) :
     /\ r.user_id = u
     /\ \E q \in RowSet(sessions) : q.id = s /\ r.created_at < q.created_at}

\* C30: for every session of a user with several sessions, the
\* previous_session_id of get_session_info is None or the id of another
\* session of the same user created before the queried one (never the queried
\* session itself, never a later one), and is_first_session is true exactly
\* for the user's oldest session.
C30_PreviousSessionIsEarlier ==
  (/\ ~IsNone(call)
   /\ Val(call).fn = "utility.get_session_info"
   /\ Val(call).out.status = 200
   /\ Val(call).out.total_sessions >= 2) =>
    LET c == Val(call)
        earlier == CreatedBefore(c.sessions, c.user_id, c.session_id)
    IN  /\ c.out.is_first_session = (earlier = {})
        /\ \/ IsNone(c.out.previous_session_id)
           \/ \E r \in earlier : r.id = Val(c.out.previous_session_id)
====
